---- MODULE Spec2Model ----
(***************************************************************************)
(* Model of the macOS windowing backend of visage                          *)
(* (src/unnamed/part_000: windowing_macos.mm) and of the application       *)
(* editor (src/visage_app/application_editor.cpp).                         *)
(*                                                                         *)
(* Spec        window lifecycle: NativeWindowLookup, WindowMac, the        *)
(*             window/application delegates and the AppKit close sequence. *)
(* SpecRender  display link -> main queue -> layer redraw -> draw callback.*)
(* SpecSurface drawable size of the view's CAMetalLayer.                   *)
(*                                                                         *)
(* Every handler of the source is one action.  The handlers are written as *)
(* operators from a state record to a state record so that a handler that  *)
(* calls another one (windowWillClose: -> closeWindow -> hide) is the      *)
(* composition of their operators.  `log` is the trace of the calls made   *)
(* into AppKit and into the owning framework object since the current      *)
(* top-level event started.                                                *)
(***************************************************************************)
EXTENDS Integers, Sequences, FiniteSets, TLC

\* ------------------------------------------------------------------ bounds
MaxWindows == 2       \* WindowMac objects that can be constructed
MaxRect    == 2       \* distinct non-zero content rectangles
MaxQueue   == 2       \* blocks waiting on the main dispatch queue
MaxTicks   == 3       \* cap of display_count / draw_count
MaxPos     == 2       \* distinct non-zero screen positions of the cursor
MaxKeyCode == 128     \* native key codes run from -1 to MaxKeyCode
MaxResizeSteps == 3   \* proposed frame sizes of one live-resize gesture
MaxFrames  == 3       \* frames of the editor; the last one is not drawing

Windows  == 1..MaxWindows   \* numbered in the order they are constructed
Answers  == [Windows -> BOOLEAN]
Rects    == 1..MaxRect
FirstRect == CHOOSE r \in Rects : \A q \in Rects : r <= q
Decorations == {"native", "client", "popup"}
NoWindow == 0         \* nullptr as a WindowMac* / nil as a view handle
ZeroRect == 0         \* the zero NSRect (what a message to nil returns)
ZeroPoint == 0        \* the zero NSPoint (a position property never assigned)
Positions == 1..MaxPos
ScreenHeight == MaxPos + 1   \* height of the first screen
Buttons  == {"left", "right", "middle", "other"}   \* "other": buttonNumber > 2
Handles  == 1..(MaxWindows + 1)   \* values nativeHandle() can return

VARIABLES
  \* --- WindowMac fields (per window object)
  life,                 \* "none" | "live" | "destroyed"
  parent_view,          \* parent_view_ != nullptr  (embedded mode)
  window_handle,        \* window_handle_: "null" | "ns" (own NSWindow) | "host"
  last_content_rect,    \* last_content_rect_
  visage_window,        \* view_.visage_window != nullptr (the back-reference)
  decoration,           \* decoration_: "native" | "client" | "popup"
  allow_quit,           \* view_.allow_quit
  visible,              \* Window::visible_: "initial" | "true" | "false"
  native_handle,        \* nativeHandle() of each window object
  \* --- process-wide
  native_window_lookup, \* NativeWindowLookup::native_window_lookup_
  running_event_loop,   \* WindowMac::running_event_loop_
  crashed,              \* a null WindowMac* was dereferenced
  added,                \* history: windows passed to addWindow and not to
                        \* removeWindow since
  \* --- AppKit side
  ns_visible,           \* [NSWindow isVisible] of the window's own NSWindow
  ns_delegate,          \* the NSWindow has the VisageAppWindowDelegate
  ns_rect,              \* contentLayoutRect of the window's own NSWindow
  view_in_window,       \* view_.window != nil
  host_visible,         \* [hostWindow isVisible]
  closing,              \* the window whose NSWindow is inside [NSWindow close]
  pending,              \* notifications that close still has to deliver
  observing,            \* windows whose occlusion notifications the view observes
  close_all,            \* closeAll(): the part of its snapshot not yet visited
  log,                  \* calls made since the current top-level event began
  \* --- render-surface driver (per view)
  main_queue,           \* blocks dispatch_async'ed to the main queue (views)
  needs_display,        \* the layer was marked with setNeedsDisplay
  display_count,        \* VisageAppView display_count
  draw_count,           \* VisageAppView draw_count
  link_running,         \* the CVDisplayLink of the view is started
  draw_calls,           \* drawCallback invocations on the window object
  last_thread,          \* thread that took the last step: "ui" | "timing"
  \* --- mouse (per view, and the one OS cursor)
  mouse_down_screen_position,  \* self.mouse_down_screen_position, y downwards
  cursor,               \* [NSEvent mouseLocation]: the OS cursor, y upwards
  held,                 \* the button pressed last on the view and not released
  last_down,            \* history: cursor position at the last mouse-down
  \* --- CAMetalLayer of one view
  surf_pc,              \* "unborn" | "created" | "resized" | "rescaled" | "moved"
  bounds_size,          \* self.bounds.size  <<w, h>>
  contents_scale,       \* metalLayer.contentsScale
  drawable_size,        \* metalLayer.drawableSize <<w, h>>
  surf_in_window,       \* self.window != nil
  backing_scale         \* self.window.backingScaleFactor

winVars  == <<life, parent_view, window_handle, last_content_rect, visage_window,
              decoration, allow_quit, visible, native_handle,
              native_window_lookup, running_event_loop, crashed, added,
              ns_visible, ns_delegate, ns_rect, view_in_window, host_visible,
              closing, pending, observing, close_all, log>>
rendVars == <<main_queue, needs_display, display_count, draw_count, link_running,
              draw_calls, last_thread>>
surfVars == <<surf_pc, bounds_size, contents_scale, drawable_size, surf_in_window,
              backing_scale>>
mouseVars == <<mouse_down_screen_position, cursor, held, last_down>>
vars     == <<winVars, rendVars, surfVars, mouseVars>>

\* ------------------------------------------------------------ state record
Cur ==
  [life |-> life, parent_view |-> parent_view, window_handle |-> window_handle,
   last_content_rect |-> last_content_rect, visage_window |-> visage_window,
   decoration |-> decoration, allow_quit |-> allow_quit, visible |-> visible,
   native_window_lookup |-> native_window_lookup,
   running_event_loop |-> running_event_loop, crashed |-> crashed,
   added |-> added,
   ns_visible |-> ns_visible, ns_delegate |-> ns_delegate, ns_rect |-> ns_rect,
   view_in_window |-> view_in_window, host_visible |-> host_visible,
   closing |-> closing, pending |-> pending, observing |-> observing,
   close_all |-> close_all, log |-> log]

Commit(s) ==
  \E v \in {s} :       \* the handler runs once; its result is assigned
    /\ life' = v.life
    /\ parent_view' = v.parent_view
    /\ window_handle' = v.window_handle
    /\ last_content_rect' = v.last_content_rect
    /\ visage_window' = v.visage_window
    /\ decoration' = v.decoration
    /\ allow_quit' = v.allow_quit
    /\ visible' = v.visible
    /\ native_handle' = native_handle
    /\ native_window_lookup' = v.native_window_lookup
    /\ running_event_loop' = v.running_event_loop
    /\ crashed' = v.crashed
    /\ added' = v.added
    /\ ns_visible' = v.ns_visible
    /\ ns_delegate' = v.ns_delegate
    /\ ns_rect' = v.ns_rect
    /\ view_in_window' = v.view_in_window
    /\ host_visible' = v.host_visible
    /\ closing' = v.closing
    /\ pending' = v.pending
    /\ observing' = v.observing
    /\ close_all' = v.close_all
    /\ log' = v.log

Emit(s, e) == [s EXCEPT !.log = Append(@, e)]
Begin(e)   == [Cur EXCEPT !.log = << <<e>> >>]
BeginEvent(e) == [Cur EXCEPT !.log = <<e>>]

\* ------------------------------------------------------ NativeWindowLookup
\* nativeHandle(): the registry is keyed by the window's view (the delegates
\* look a window up by [NSWindow contentView]); one view per window object.
NativeHandle(w) == native_handle[w]

AddWindow(reg, w) ==
  [h \in DOMAIN reg \cup {NativeHandle(w)} |->
     IF h = NativeHandle(w) THEN w ELSE reg[h]]

\* a removeWindow that erases nothing
RemoveWindowKeeps(reg, w) == reg

\* a removeWindow that empties the registry
RemoveWindowClears(reg, w) == << >>

RemoveWindow(reg, w) ==
  IF NativeHandle(w) \in DOMAIN reg
    THEN [h \in DOMAIN reg \ {NativeHandle(w)} |-> reg[h]]
    ELSE reg

FindWindow(reg, handle) ==
  IF handle \in DOMAIN reg THEN reg[handle] ELSE NoWindow

\* the calls NativeWindowLookup::instance().addWindow(this) / removeWindow(this)
LookupAdd(s, w) ==
  Emit([s EXCEPT !.native_window_lookup = AddWindow(@, w),
                 !.added = @ \cup {w}], <<"addWindow">>)

LookupRemove(s, w) ==
  Emit([s EXCEPT !.native_window_lookup = RemoveWindow(@, w),
                 !.added = @ \ {w}], <<"removeWindow">>)

\* std::map iterates in ascending key order
RECURSIVE SortedKeys(_)
SortedKeys(keys) ==
  IF keys = {} THEN << >>
  ELSE LET m == CHOOSE k \in keys : \A j \in keys : k <= j
       IN <<m>> \o SortedKeys(keys \ {m})

IsShowing(s, w) ==
  /\ s.window_handle[w] # "null"
  /\ IF s.window_handle[w] = "host" THEN s.host_visible ELSE s.ns_visible[w]

\* closeRequested() runs the owner's callback: `answers` is what the callback
\* of each window says during the current handler.
CloseRequested(answers, w) == answers[w]

RECURSIVE AnyWindowOpenFrom(_, _)
AnyWindowOpenFrom(s, keys) ==
  IF keys = << >> THEN FALSE
  ELSE IF IsShowing(s, s.native_window_lookup[Head(keys)]) THEN TRUE
  ELSE AnyWindowOpenFrom(s, Tail(keys))

AnyWindowOpen(s) ==
  AnyWindowOpenFrom(s, SortedKeys(DOMAIN s.native_window_lookup))

\* a requestAllToClose whose result is the answer of the window asked last
RECURSIVE RequestAllToCloseLast(_, _, _, _)
RequestAllToCloseLast(s, answers, keys, result) ==
  IF keys = << >> THEN [result |-> result, s |-> s]
  ELSE LET w == s.native_window_lookup[Head(keys)]
       IN  RequestAllToCloseLast(Emit(s, <<"closeRequested", w, CloseRequested(answers, w)>>),
             answers, Tail(keys), CloseRequested(answers, w))

\* the loop of requestAllToClose: every window is asked, none is skipped
RECURSIVE RequestAllToCloseFrom(_, _, _, _)
RequestAllToCloseFrom(s, answers, keys, result) ==
  IF keys = << >> THEN [result |-> result, s |-> s]
  ELSE LET w == s.native_window_lookup[Head(keys)]
       IN  RequestAllToCloseFrom(Emit(s, <<"closeRequested", w, CloseRequested(answers, w)>>),
             answers, Tail(keys),
             IF ~CloseRequested(answers, w) THEN FALSE ELSE result)

RequestAllToClose(s, answers) ==
  RequestAllToCloseFrom(s, answers, SortedKeys(DOMAIN s.native_window_lookup), TRUE)

\* ---------------------------------------------------------------- WindowMac
\* window_handle_.contentLayoutRect; a message to nil returns the zero rect
HostContentRect == MaxRect
ContentLayoutRect(s, w) ==
  IF s.window_handle[w] = "null" THEN ZeroRect
  ELSE IF s.window_handle[w] = "host" THEN HostContentRect
  ELSE s.ns_rect[w]

Hide(s, w) ==
  IF s.window_handle[w] # "null" /\ ~s.parent_view[w]
    THEN Emit(Emit([s EXCEPT !.ns_visible[w] = FALSE], <<"orderOut">>), <<"notifyHide">>)
    ELSE s

StopIfLastWindow(s) ==
  IF s.running_event_loop /\ ~AnyWindowOpen(s) THEN Emit(s, <<"stop">>) ELSE s

\* a closeWindow that drops window_handle_ before hide()
CloseWindowReleasesFirst(s, w) ==
  LET s1 == Emit([s EXCEPT !.last_content_rect[w] = ContentLayoutRect(s, w)],
                 <<"persist">>)
      s2 == Emit([s1 EXCEPT !.window_handle[w] = "null"], <<"release">>)
      s3 == LookupRemove(s2, w)
      s4 == Hide(s3, w)
  IN  StopIfLastWindow(s4)

CloseWindow(s, w) ==
  LET s1 == Emit([s EXCEPT !.last_content_rect[w] = ContentLayoutRect(s, w)],
                 <<"persist">>)
      s2 == LookupRemove(s1, w)
      s3 == Hide(s2, w)
      s4 == Emit([s3 EXCEPT !.window_handle[w] = "null"], <<"release">>)
  IN  StopIfLastWindow(s4)

SetParentWindow(s, w, win) ==
  IF ~s.parent_view[w] THEN s
  ELSE [s EXCEPT !.window_handle[w] = win]

IsEmbedded(s, w) == s.parent_view[w]
IsPopup(s, w)    == s.decoration[w] = "popup"

\* Window::setVisible
SetVisible(s, w, vis) ==
  Emit([s EXCEPT !.visible[w] = IF vis THEN "true" ELSE "false"],
       <<"setVisible", w, vis>>)

\* a viewWillMoveToWindow: that observes the occlusion of every window
ViewWillMoveToWindowObservesAll(s, w, win) ==
  LET s1 == IF s.visage_window[w] THEN SetParentWindow(s, w, win) ELSE s
      s2 == Emit([s1 EXCEPT !.observing[w] = @ \cup {win}], <<"addObserver", w, win>>)
  IN  [s2 EXCEPT !.view_in_window[w] = TRUE]

\* viewWillMoveToWindow: with a window
ViewWillMoveToWindow(s, w, win) ==
  LET s1 == IF s.visage_window[w] THEN SetParentWindow(s, w, win) ELSE s
      embedded == s.visage_window[w] /\ IsEmbedded(s, w)
      s2 == IF ~embedded
              THEN Emit([s1 EXCEPT !.observing[w] = @ \cup {win}],
                        <<"addObserver", w, win>>)
              ELSE IF s.visage_window[w] THEN SetVisible(s1, w, TRUE)
              ELSE s1
  IN  [s2 EXCEPT !.view_in_window[w] = TRUE]

\* windowOcclusionChanged: of one view
WindowOcclusionChanged(s, w, vis) ==
  IF s.visage_window[w] THEN SetVisible(s, w, vis) ELSE s

\* NSWindowDidChangeOcclusionStateNotification of the window `win` (of the
\* window object `owner` if it is its own NSWindow): every view that
\* observes it runs windowOcclusionChanged:
RECURSIVE NotifyOcclusion(_, _, _, _)
NotifyOcclusion(s, views, win, vis) ==
  IF views = {} THEN s
  ELSE LET w == CHOOSE v \in views : \A u \in views : v <= u
           s1 == IF win \in s.observing[w]
                   THEN WindowOcclusionChanged(s, w, vis) ELSE s
       IN  NotifyOcclusion(s1, views \ {w}, win, vis)

\* viewWillMoveToWindow: with nil
ViewWillMoveToNil(s, w) ==
  LET s1 == IF s.visage_window[w] THEN CloseWindow(s, w) ELSE s
  IN  [s1 EXCEPT !.view_in_window[w] = FALSE]

CreateWindow(s, w) ==
  LET s1 == [s EXCEPT !.window_handle[w] = "ns",
                      !.ns_visible[w] = FALSE,
                      !.ns_delegate[w] = FALSE,
                      !.ns_rect[w] = s.last_content_rect[w]]
  IN  ViewWillMoveToWindow(Emit(s1, <<"createWindow">>), w, "ns")

ShowWindow(s, w) ==
  LET s1 == IF ~s.parent_view[w]
              THEN LET c == IF s.window_handle[w] = "null"
                              THEN CreateWindow(s, w) ELSE s
                   IN  Emit([c EXCEPT !.ns_visible[w] = TRUE],
                            IF IsPopup(c, w) THEN <<"orderFront">>
                            ELSE <<"makeKeyAndOrderFront">>)
              ELSE s
  IN  Emit(s1, <<"notifyShow">>)

\* WindowMac::showMaximized: no test of parent_view_
ShowMaximizedWindow(s, w) ==
  LET c  == IF s.window_handle[w] = "null" THEN CreateWindow(s, w) ELSE s
      s1 == IF c.window_handle[w] = "host"
              THEN [c EXCEPT !.host_visible = TRUE]
              ELSE [c EXCEPT !.ns_visible[w] = TRUE]
  IN  Emit(Emit(Emit(s1, <<"zoom">>), <<"makeKeyAndOrderFront">>), <<"notifyShow">>)

\* The NSWindow is gone once nothing refers to it any more.
ForgetNSWindow(s, w) ==
  [s EXCEPT !.ns_visible[w] = FALSE, !.ns_delegate[w] = FALSE,
            !.ns_rect[w] = ZeroRect]

\* [NSWindow close]: posts will-close to the delegate, may detach the content
\* view, then orders the window out.
BeginNativeClose(s, w) ==
  [Emit(s, <<"nativeClose", w, s.ns_visible[w]>>)
     EXCEPT !.closing = w,
            !.pending = (IF s.ns_delegate[w] THEN {"willClose"} ELSE {})
                        \cup (IF s.view_in_window[w] THEN {"detach"} ELSE {})]

\* windowShouldClose: of VisageAppWindowDelegate
WindowShouldClose(s, w, answer) ==
  LET view   == IF s.view_in_window[w] THEN NativeHandle(w) ELSE NoWindow
      window == FindWindow(s.native_window_lookup, view)
  IN  IF window = NoWindow
        THEN [ok |-> FALSE, s |-> Emit([s EXCEPT !.crashed = TRUE], <<"nullDeref">>)]
        ELSE LET answers == [v \in Windows |-> answer]
             IN  [ok |-> CloseRequested(answers, window),
                  s  |-> Emit(s, <<"closeRequested", window,
                                   CloseRequested(answers, window)>>)]

\* [NSWindow performClose:] on the window's own NSWindow
PerformClose(s, w, answer) ==
  IF s.ns_delegate[w]
    THEN LET r == WindowShouldClose(s, w, answer)
         IN  IF r.ok THEN BeginNativeClose(r.s, w) ELSE r.s
    ELSE BeginNativeClose(s, w)

\* WindowMac::close(): [window_handle_ performClose:nil]
CloseOp(s, w, answer, hostAccepts) ==
  IF s.window_handle[w] = "ns" THEN PerformClose(s, w, answer)
  ELSE IF s.window_handle[w] = "host"
    THEN Emit([s EXCEPT !.host_visible = @ /\ ~hostAccepts], <<"hostPerformClose">>)
  ELSE s

\* closeAll(): the copy of the registry it iterates over, in key order
Snapshot(reg) ==
  LET keys == SortedKeys(DOMAIN reg)
  IN  [k \in 1..Len(keys) |-> reg[keys[k]]]

\* closeAll() starts: the windows of the copy are closed one after the other
CloseAll(s) ==
  Emit([s EXCEPT !.close_all = Snapshot(s.native_window_lookup)],
       <<"closeAll", Snapshot(s.native_window_lookup)>>)

Chars == {"q", "w", "a"}

\* a keyDown: that takes the quit shortcut in every view
KeyDownQuitsAnywhere(s, w, command, ch, handled) ==
  IF command /\ ch \in {"q", "w"} THEN CloseAll(s)
  ELSE LET s1 == IF ~command THEN Emit(s, <<"interpretKeyEvents">>) ELSE s
           s2 == Emit(s1, <<"handleKeyDown", w, handled>>)
       IN  IF ~handled THEN Emit(s2, <<"super keyDown">>) ELSE s2

\* a keyDown: that interprets the key as text only once handleKeyDown has
\* turned it down
KeyDownInterpretsUnhandled(s, w, command, ch, handled) ==
  IF s.allow_quit[w] /\ command /\ ch \in {"q", "w"} THEN CloseAll(s)
  ELSE LET s1 == Emit(s, <<"handleKeyDown", w, handled>>)
           s2 == IF ~command /\ ~handled
                   THEN Emit(s1, <<"interpretKeyEvents">>) ELSE s1
       IN  IF ~handled THEN Emit(s2, <<"super keyDown">>) ELSE s2

\* keyDown: of VisageAppView; `handled` is what handleKeyDown returns
KeyDownEvent(s, w, command, ch, handled) ==
  IF s.allow_quit[w] /\ command /\ ch \in {"q", "w"} THEN CloseAll(s)
  ELSE LET s1 == IF ~command THEN Emit(s, <<"interpretKeyEvents">>) ELSE s
           s2 == Emit(s1, <<"handleKeyDown", w, handled>>)
       IN  IF ~handled THEN Emit(s2, <<"super keyDown">>) ELSE s2

\* a keyUp: that always passes the event on
KeyUpPassesOn(s, w, handled) ==
  Emit(Emit(s, <<"handleKeyUp", w, handled>>), <<"super keyUp">>)

\* keyUp: of VisageAppView; `handled` is what handleKeyUp returns
KeyUpEvent(s, w, handled) ==
  LET s1 == Emit(s, <<"handleKeyUp", w, handled>>)
  IN  IF ~handled THEN Emit(s1, <<"super keyUp">>) ELSE s1

\* The UI thread is between two events: not inside [NSWindow close].
Idle == closing = NoWindow /\ ~crashed /\ close_all = << >>

\* ------------------------------------------------------ render-surface driver
Range(q) == {q[i] : i \in 1..Len(q)}

\* a step of the UI thread that leaves the render-surface driver alone
RendIdle ==
  /\ last_thread' = "ui"
  /\ UNCHANGED <<main_queue, needs_display, display_count, draw_count,
                 link_running, draw_calls>>

\* initWithFrame:inWindow: creates the display link and starts it
InitView(w) ==
  /\ link_running' = [link_running EXCEPT ![w] = TRUE]
  /\ last_thread' = "ui"
  /\ UNCHANGED <<main_queue, needs_display, display_count, draw_count, draw_calls>>

\* The view is retained by its WindowMac (view_, and the window or superview
\* that holds it) and by every block on the main queue that captured it.
\* dealloc runs when the last of these lets go; it stops the display link.
ViewRetained(lf, w, queue) == lf[w] = "live" \/ w \in Range(queue)

ReleaseView(w, queue) ==
  /\ last_thread' = "ui"
  /\ IF ViewRetained(life', w, queue)
       THEN UNCHANGED <<link_running, needs_display>>
       ELSE /\ link_running' = [link_running EXCEPT ![w] = FALSE]
            /\ needs_display' = [needs_display EXCEPT ![w] = FALSE]

\* a DisplayLinkCallback that counts the tick itself, on the timing thread
DisplayLinkCallbackCounts(w) ==
  /\ ~crashed /\ link_running[w] /\ Len(main_queue) < MaxQueue
  /\ display_count[w] < MaxTicks
  /\ main_queue' = Append(main_queue, w)
  /\ display_count' = [display_count EXCEPT ![w] = @ + 1]
  /\ last_thread' = "timing"
  /\ UNCHANGED <<needs_display, draw_count, link_running, draw_calls>>
  /\ UNCHANGED <<winVars, surfVars, mouseVars>>

\* DisplayLinkCallback, on the display link's timing thread: the block it
\* dispatches captures (retains) the view.  The link calls back only while
\* it runs, and dealloc stops it.
DisplayLinkCallback(w) ==
  /\ ~crashed /\ link_running[w] /\ Len(main_queue) < MaxQueue
  /\ main_queue' = Append(main_queue, w)
  /\ last_thread' = "timing"
  /\ UNCHANGED <<needs_display, display_count, draw_count, link_running, draw_calls>>
  /\ UNCHANGED <<winVars, surfVars, mouseVars>>

\* a drawWindow without the test of the back-reference
DrawWindowSkipsNothing(backref, calls) == calls + 1

\* drawWindow: drawCallback runs only if view.visage_window is not null

DrawWindow(backref, calls) == IF backref THEN calls + 1 ELSE calls

\* markNeedsDisplayFromDisplayLink with the frame throttling that the source
\* has commented out: counted, but not marked when the layer has just rendered
MarkNeedsDisplayThrottled(w) ==
  /\ Idle /\ main_queue # << >> /\ Head(main_queue) = w
  /\ display_count[w] < MaxTicks
  /\ main_queue' = Tail(main_queue)
  /\ display_count' = [display_count EXCEPT ![w] = @ + 1]
  /\ IF ViewRetained(life, w, Tail(main_queue))
       THEN /\ needs_display' = [needs_display EXCEPT
                                   ![w] = @ \/ draw_count[w] = 0]
            /\ UNCHANGED link_running
       ELSE /\ needs_display' = [needs_display EXCEPT ![w] = FALSE]
            /\ link_running' = [link_running EXCEPT ![w] = FALSE]
  /\ last_thread' = "ui"
  /\ UNCHANGED <<draw_count, draw_calls>>
  /\ UNCHANGED <<winVars, surfVars, mouseVars>>

\* the block of DisplayLinkCallback runs: markNeedsDisplayFromDisplayLink
MarkNeedsDisplayFromDisplayLink(w) ==
  /\ Idle /\ main_queue # << >> /\ Head(main_queue) = w
  /\ display_count[w] < MaxTicks
  /\ main_queue' = Tail(main_queue)
  /\ display_count' = [display_count EXCEPT ![w] = @ + 1]
  /\ IF ViewRetained(life, w, Tail(main_queue))
       THEN /\ needs_display' = [needs_display EXCEPT ![w] = TRUE]
            /\ UNCHANGED link_running
       ELSE /\ needs_display' = [needs_display EXCEPT ![w] = FALSE]
            /\ link_running' = [link_running EXCEPT ![w] = FALSE]
  /\ last_thread' = "ui"
  /\ UNCHANGED <<draw_count, draw_calls>>
  /\ UNCHANGED <<winVars, surfVars, mouseVars>>

\* displayLayer: Core Animation asks the marked layer for its content
DisplayLayer(w) ==
  /\ Idle /\ needs_display[w] /\ draw_count[w] < MaxTicks
  /\ needs_display' = [needs_display EXCEPT ![w] = FALSE]
  /\ draw_count' = [draw_count EXCEPT ![w] = @ + 1]
  /\ draw_calls' = [draw_calls EXCEPT ![w] = DrawWindow(visage_window[w], @)]
  /\ last_thread' = "ui"
  /\ UNCHANGED <<main_queue, display_count, link_running>>
  /\ UNCHANGED <<winVars, surfVars, mouseVars>>

\* ---------------------------------------------------------- CAMetalLayer size
SurfWidths  == {0, 1, 100}
SurfHeights == {0, 1, 50}
SurfSizes   == {<<w, h>> : w \in SurfWidths, h \in SurfHeights}
SurfScales  == {1, 2}

Surf ==
  [bounds |-> bounds_size, contents_scale |-> contents_scale,
   drawable |-> drawable_size, in_window |-> surf_in_window,
   backing |-> backing_scale]

\* an updateMetalLayerDrawableSize that sizes the drawable in points
UpdateDrawableUnscaled(v) ==
  [v EXCEPT !.contents_scale = IF v.in_window THEN v.backing ELSE @,
            !.drawable = v.bounds]

\* updateMetalLayerDrawableSize
UpdateMetalLayerDrawableSize(v) ==
  LET scale == IF v.in_window THEN v.backing
               ELSE IF v.contents_scale > 0 THEN v.contents_scale
               ELSE 1
  IN  [v EXCEPT !.contents_scale = scale,
                !.drawable = <<v.bounds[1] * scale, v.bounds[2] * scale>>]

SurfCommit(v, pc) ==
  /\ surf_pc' = pc
  /\ bounds_size' = v.bounds
  /\ contents_scale' = v.contents_scale
  /\ drawable_size' = v.drawable
  /\ surf_in_window' = v.in_window
  /\ backing_scale' = v.backing
  /\ RendIdle /\ UNCHANGED <<winVars, mouseVars>>

\* initWithFrame:inWindow: makes the layer (contentsScale 1) and sizes it
SurfInitWithFrame(size) ==
  /\ surf_pc = "unborn"
  /\ SurfCommit(UpdateMetalLayerDrawableSize([Surf EXCEPT !.bounds = size]), "created")

\* setFrameSize:
SurfSetFrameSize(size) ==
  /\ surf_pc # "unborn"
  /\ SurfCommit(UpdateMetalLayerDrawableSize([Surf EXCEPT !.bounds = size]), "resized")

\* viewDidChangeBackingProperties
SurfViewDidChangeBackingProperties ==
  /\ surf_pc # "unborn"
  /\ SurfCommit(UpdateMetalLayerDrawableSize(Surf), "rescaled")

\* AppKit: the view enters a window / leaves it / the window changes screen
SurfMoveToWindow(scale) ==
  /\ surf_pc # "unborn" /\ ~surf_in_window
  /\ SurfCommit([Surf EXCEPT !.in_window = TRUE, !.backing = scale], "moved")

SurfMoveOutOfWindow ==
  /\ surf_pc # "unborn" /\ surf_in_window
  /\ SurfCommit([Surf EXCEPT !.in_window = FALSE], "moved")

SurfScreenChange(scale) ==
  /\ surf_pc # "unborn" /\ surf_in_window /\ backing_scale # scale
  /\ SurfCommit([Surf EXCEPT !.backing = scale], "moved")

\* ------------------------------------------------------------------ actions

\* WindowMac::WindowMac(x, y, width, height, scale, decoration)
ConstructStandalone(w, rect, deco) ==
  /\ Idle /\ life[w] = "none" /\ \A v \in 1..(w - 1) : life[v] # "none"
  /\ LET s0 == [Begin("WindowMac") EXCEPT
                  !.life[w] = "live", !.parent_view[w] = FALSE,
                  !.decoration[w] = deco,
                  !.last_content_rect[w] = rect,
                  !.visage_window[w] = TRUE,
                  !.allow_quit[w] = TRUE]
         s1 == CreateWindow(s0, w)
         s2 == LookupAdd(s1, w)
     IN  Commit(s2)
  /\ InitView(w)
  /\ UNCHANGED <<surfVars, mouseVars>>

\* WindowMac::WindowMac(width, height, scale, parent_handle)
ConstructEmbedded(w, hosted) ==
  /\ Idle /\ life[w] = "none" /\ \A v \in 1..(w - 1) : life[v] # "none"
  /\ LET s0 == [Begin("WindowMac") EXCEPT
                  !.life[w] = "live", !.parent_view[w] = TRUE,
                  !.visage_window[w] = TRUE,
                  !.allow_quit[w] = FALSE]
         s1 == IF hosted THEN ViewWillMoveToWindow(s0, w, "host") ELSE s0
         s2 == LookupAdd(s1, w)
     IN  Commit(s2)
  /\ InitView(w)
  /\ UNCHANGED <<surfVars, mouseVars>>

\* a ~WindowMac that takes the view out of its superview before it nulls the
\* back-reference
DestroyWindowDetachesFirst(s, w) ==
  LET s1 == LookupRemove(s, w)
      s2 == Hide(s1, w)
      s3 == IF s2.parent_view[w] /\ s2.view_in_window[w]
              THEN ViewWillMoveToNil(Emit(s2, <<"removeFromSuperview">>), w)
              ELSE s2
      s4 == Emit([s3 EXCEPT !.visage_window[w] = FALSE], <<"nullBackRef">>)
  IN  [ForgetNSWindow(s4, w) EXCEPT
         !.life[w] = "destroyed", !.window_handle[w] = "null",
         !.parent_view[w] = FALSE, !.decoration[w] = "native",
         !.allow_quit[w] = FALSE, !.visible[w] = "initial",
         !.observing[w] = {},
         !.last_content_rect[w] = ZeroRect, !.view_in_window[w] = FALSE]

\* WindowMac::~WindowMac
DestroyWindow(s, w) ==
  LET s1 == LookupRemove(s, w)
      s2 == Hide(s1, w)
      s3 == Emit([s2 EXCEPT !.visage_window[w] = FALSE], <<"nullBackRef">>)
      s4 == IF s3.parent_view[w] /\ s3.view_in_window[w]
              THEN ViewWillMoveToNil(Emit(s3, <<"removeFromSuperview">>), w)
              ELSE s3
  IN  [ForgetNSWindow(s4, w) EXCEPT
         !.life[w] = "destroyed", !.window_handle[w] = "null",
         !.parent_view[w] = FALSE, !.decoration[w] = "native",
         !.allow_quit[w] = FALSE, !.visible[w] = "initial",
         !.observing[w] = {},
         !.last_content_rect[w] = ZeroRect, !.view_in_window[w] = FALSE]

Destroy(w) ==
  /\ Idle /\ life[w] = "live"
  /\ Commit(DestroyWindow(Begin("~WindowMac"), w))
  /\ ReleaseView(w, main_queue)
  /\ UNCHANGED <<main_queue, display_count, draw_count, draw_calls, surfVars,
                 mouseVars>>

Show(w) ==
  /\ Idle /\ life[w] = "live"
  /\ Commit(ShowWindow(Begin("show"), w))
  /\ RendIdle /\ UNCHANGED <<surfVars, mouseVars>>

ShowMaximized(w) ==
  /\ Idle /\ life[w] = "live"
  /\ Commit(ShowMaximizedWindow(Begin("showMaximized"), w))
  /\ RendIdle /\ UNCHANGED <<surfVars, mouseVars>>

HideCall(w) ==
  /\ Idle /\ life[w] = "live"
  /\ Commit(Hide(Begin("hide"), w))
  /\ RendIdle /\ UNCHANGED <<surfVars, mouseVars>>

\* WindowMac::close(): [window_handle_ performClose:nil]
Close(w, answer, hostAccepts) ==
  /\ Idle /\ life[w] = "live"
  \* an input the call does not read is FALSE: closeRequested() is asked by
  \* the delegate of an own NSWindow, the host answers for a host window
  /\ answer => window_handle[w] = "ns" /\ ns_delegate[w]
  /\ hostAccepts => window_handle[w] = "host"
  /\ Commit(CloseOp(Begin("close"), w, answer, hostAccepts))
  /\ RendIdle /\ UNCHANGED <<surfVars, mouseVars>>

\* the user clicks the close button of a standalone window
UserClose(w, answer) ==
  /\ Idle /\ life[w] = "live" /\ window_handle[w] = "ns" /\ ns_visible[w]
  /\ answer => ns_delegate[w]     \* no delegate: closeRequested() is not asked
  /\ Commit(PerformClose(Begin("userClose"), w, answer))
  /\ RendIdle /\ UNCHANGED <<surfVars, mouseVars>>

\* WindowMac::closeWindow() called by the owner; the released NSWindow goes
\* away and may detach its content view while doing so.
CloseWindowCall(w) ==
  /\ Idle /\ life[w] = "live"
  /\ LET s1 == CloseWindow(Begin("closeWindow"), w)
     IN  Commit(IF window_handle[w] = "ns" /\ view_in_window[w]
                  THEN [s1 EXCEPT !.closing = w, !.pending = {"detach"}]
                  ELSE ForgetNSWindow(s1, w))
  /\ RendIdle /\ UNCHANGED <<surfVars, mouseVars>>

\* windowWillClose: of VisageAppWindowDelegate
WindowWillClose(w) ==
  /\ ~crashed /\ closing = w /\ "willClose" \in pending
  /\ LET s0     == Emit(Cur, <<"windowWillClose">>)
         view   == IF view_in_window[w] THEN NativeHandle(w) ELSE NoWindow
         window == FindWindow(native_window_lookup, view)
         s1     == IF window # NoWindow THEN CloseWindow(s0, window) ELSE s0
     IN  Commit([s1 EXCEPT !.pending = @ \ {"willClose"}])
  /\ RendIdle /\ UNCHANGED <<surfVars, mouseVars>>

\* viewWillMoveToWindow:nil as the closing NSWindow lets go of its content view
ViewDetached(w) ==
  /\ ~crashed /\ closing = w /\ "detach" \in pending
  /\ LET s1 == ViewWillMoveToNil(Emit(Cur, <<"viewWillMoveToWindow:nil">>), w)
     IN  Commit([s1 EXCEPT !.pending = @ \ {"detach"}])
  /\ RendIdle /\ UNCHANGED <<surfVars, mouseVars>>

\* [NSWindow close] returns: the window is off screen; it is gone unless the
\* WindowMac still holds it.
CloseDone(w) ==
  /\ ~crashed /\ closing = w /\ "willClose" \notin pending
  /\ LET s1 == [Cur EXCEPT !.closing = NoWindow, !.pending = {},
                           !.ns_visible[w] = FALSE]
     IN  Commit(IF window_handle[w] = "ns" THEN s1 ELSE ForgetNSWindow(s1, w))
  /\ RendIdle /\ UNCHANGED <<surfVars, mouseVars>>

\* the host puts the parent view of an embedded window into its window
HostAttach(w) ==
  /\ Idle /\ life[w] = "live" /\ parent_view[w] /\ ~view_in_window[w]
  /\ Commit(ViewWillMoveToWindow(Begin("viewWillMoveToWindow:host"), w, "host"))
  /\ RendIdle /\ UNCHANGED <<surfVars, mouseVars>>

\* the host takes the parent view of an embedded window out of its window
HostDetach(w) ==
  /\ Idle /\ life[w] = "live" /\ parent_view[w] /\ view_in_window[w]
  /\ Commit(ViewWillMoveToNil(Begin("viewWillMoveToWindow:nil"), w))
  /\ RendIdle /\ UNCHANGED <<surfVars, mouseVars>>

HostSetVisible(b) ==
  /\ Idle /\ host_visible # b
  /\ Commit([Begin("host") EXCEPT !.host_visible = b])
  /\ RendIdle /\ UNCHANGED <<surfVars, mouseVars>>

\* the user resizes a standalone window
UserResize(w, rect) ==
  /\ Idle /\ life[w] = "live" /\ window_handle[w] = "ns" /\ ns_visible[w]
  /\ ns_rect[w] # rect
  /\ Commit([Begin("resize") EXCEPT !.ns_rect[w] = rect])
  /\ RendIdle /\ UNCHANGED <<surfVars, mouseVars>>

\* the occlusion state of the window's own NSWindow changes
OcclusionChanged(w, vis) ==
  /\ Idle /\ life[w] = "live" /\ window_handle[w] = "ns"
  /\ Commit(NotifyOcclusion(Emit(Begin("occlusion"), <<"occluded", "ns", vis>>),
                            {w}, "ns", vis))
  /\ RendIdle /\ UNCHANGED <<surfVars, mouseVars>>

\* the occlusion state of the host's window changes
HostOcclusionChanged(vis) ==
  /\ Idle
  /\ Commit(NotifyOcclusion(Emit(Begin("occlusion"), <<"occluded", "host", vis>>),
                            {w \in Windows : life[w] = "live"}, "host", vis))
  /\ RendIdle /\ UNCHANGED <<surfVars, mouseVars>>

\* closeApplication()
CloseApplication ==
  /\ Idle
  /\ Commit(CloseAll(Begin("closeApplication")))
  /\ RendIdle /\ UNCHANGED <<surfVars, mouseVars>>

\* the loop of closeAll() reaches its next window and calls close() on it;
\* `answer` is what closeRequested() of that window returns at this point
CloseAllNext(answer, hostAccepts) ==
  /\ closing = NoWindow /\ ~crashed /\ close_all # << >>
  /\ LET w  == Head(close_all)
         s0 == Emit([Cur EXCEPT !.close_all = Tail(@)], <<"close", w, answer>>)
     IN  Commit(CloseOp(s0, w, answer, hostAccepts))
  /\ RendIdle /\ UNCHANGED <<surfVars, mouseVars>>

KeyDown(w, command, ch, handled) ==
  /\ Idle /\ life[w] = "live"
  /\ Commit(KeyDownEvent(BeginEvent(<<"keyDown", w, command, ch>>),
                         w, command, ch, handled))
  /\ RendIdle /\ UNCHANGED <<surfVars, mouseVars>>

KeyUp(w, handled) ==
  /\ Idle /\ life[w] = "live"
  /\ Commit(KeyUpEvent(BeginEvent(<<"keyUp", w>>), w, handled))
  /\ RendIdle /\ UNCHANGED <<surfVars, mouseVars>>

\* NativeWindowLookup::instance().addWindow(window)
LookupAddWindow(w) ==
  /\ Commit([Cur EXCEPT !.native_window_lookup = AddWindow(@, w),
                        !.log = << <<"addWindow", w, native_window_lookup>> >>])
  /\ RendIdle /\ UNCHANGED <<surfVars, mouseVars>>

\* NativeWindowLookup::instance().removeWindow(window)
LookupRemoveWindow(w) ==
  /\ Commit([Cur EXCEPT !.native_window_lookup = RemoveWindow(@, w),
                        !.log = << <<"removeWindow", w, native_window_lookup>> >>])
  /\ RendIdle /\ UNCHANGED <<surfVars, mouseVars>>

\* the user moves the mouse with no button held
CursorMoved(pos) ==
  /\ Idle /\ cursor # pos /\ \A w \in Windows : held[w] = "none"
  /\ cursor' = pos
  /\ UNCHANGED <<mouse_down_screen_position, held, last_down>>
  /\ Commit(Begin("mouseMoved"))
  /\ RendIdle /\ UNCHANGED surfVars

\* mouseScreenPosition: the mouse location with y counted from the top of the
\* first screen (there is a screen whenever there are mouse events)
MouseScreenPosition(pos) == ScreenHeight - pos

\* CGWarpMouseCursorPosition: takes y counted from the top of the main display
WarpMouseCursorPosition(point) == ScreenHeight - point

\* makeKeyWindow of VisageAppView
MakeKeyWindow(s, w) ==
  IF ~IsPopup(s, w) THEN Emit(s, <<"makeKeyWindow">>) ELSE s

\* mouseDown:, rightMouseDown:, otherMouseDown:
MouseDownEvent(s, w, button) ==
  IF button = "other" THEN s
  ELSE MakeKeyWindow(Emit(Emit(s, <<"recordPosition">>), <<"handleMouseDown", button>>), w)

MouseDown(w, button) ==
  /\ Idle /\ life[w] = "live" /\ view_in_window[w] /\ held[w] = "none"
  /\ Commit(MouseDownEvent(BeginEvent(<<"mouseDown", w, button>>), w, button))
  /\ mouse_down_screen_position' =
       IF button = "other" THEN mouse_down_screen_position
       ELSE [mouse_down_screen_position EXCEPT ![w] = MouseScreenPosition(cursor)]
  /\ held' = [held EXCEPT ![w] = button]
  /\ last_down' = [last_down EXCEPT ![w] = cursor]
  /\ UNCHANGED cursor
  /\ RendIdle /\ UNCHANGED surfVars

\* mouseUp:, rightMouseUp:, otherMouseUp:
MouseUp(w) ==
  /\ Idle /\ life[w] = "live" /\ held[w] # "none"
  /\ Commit(IF held[w] = "other" THEN BeginEvent(<<"mouseUp", w, held[w]>>)
            ELSE Emit(BeginEvent(<<"mouseUp", w, held[w]>>), <<"handleMouseUp", held[w]>>))
  /\ held' = [held EXCEPT ![w] = "none"]
  /\ UNCHANGED <<mouse_down_screen_position, cursor, last_down>>
  /\ RendIdle /\ UNCHANGED surfVars

\* checkRelativeMode: where the cursor is afterwards; `relative` is what
\* mouseRelativeMode() returns
CheckRelativeMode(relative, recorded, pos) ==
  IF relative THEN WarpMouseCursorPosition(recorded) ELSE pos

\* mouseDragged:, rightMouseDragged:, otherMouseDragged: the user drags the
\* mouse to `pos` with the held button
MouseDragged(w, pos, relative) ==
  /\ Idle /\ life[w] = "live" /\ held[w] # "none"
  /\ LET s0 == Emit(BeginEvent(<<"mouseDragged", w, held[w], relative, pos>>),
                    <<"handleMouseMove">>)
     IN  Commit(IF relative THEN Emit(s0, <<"warp">>) ELSE s0)
  /\ cursor' = CheckRelativeMode(relative, mouse_down_screen_position[w], pos)
  /\ UNCHANGED <<mouse_down_screen_position, held, last_down>>
  /\ RendIdle /\ UNCHANGED surfVars

\* the input events of VisageAppView
Events ==
  {"keyDown", "keyUp", "insertText", "scrollWheel", "mouseMoved",
   "mouseEntered", "mouseExited", "mouseDown", "mouseUp", "mouseDragged",
   "draggingEntered", "draggingUpdated", "performDragOperation",
   "draggingExited"}

\* the handler of the owning window that the event is forwarded to
WindowHandler(kind) ==
  CASE kind = "keyDown" -> "handleKeyDown"
    [] kind = "keyUp" -> "handleKeyUp"
    [] kind = "insertText" -> "handleTextInput"
    [] kind = "scrollWheel" -> "handleMouseWheel"
    [] kind \in {"mouseMoved", "mouseEntered", "mouseDragged"} -> "handleMouseMove"
    [] kind = "mouseExited" -> "handleMouseLeave"
    [] kind = "mouseDown" -> "handleMouseDown"
    [] kind = "mouseUp" -> "handleMouseUp"
    [] kind \in {"draggingEntered", "draggingUpdated"} -> "handleFileDrag"
    [] kind = "performDragOperation" -> "handleFileDrop"
    [] OTHER -> "handleFileDragLeave"

\* what a call through the null back-reference can do: end the process, or
\* run the member function with a null `this`
Outcomes == {"crash", "call"}

\* self.visage_window->...() with no test of the back-reference
ThroughBackRef(s, w, call, outcome) ==
  IF s.visage_window[w] THEN Emit(s, <<call, w>>)
  ELSE LET s1 == Emit(s, <<"nullDeref", w>>)
       IN  IF outcome = "crash" THEN [s1 EXCEPT !.crashed = TRUE]
           ELSE Emit(s1, <<call, w>>)

\* an input event of the view of `w`: keyDown: takes the quit shortcut before
\* it touches the back-reference; every other path goes through it (the mouse
\* and drag events already in eventPosition: / dragPosition:)
InputEventHandler(s, w, kind, quit, outcome) ==
  IF kind = "keyDown" /\ quit THEN CloseAll(s)
  ELSE ThroughBackRef(s, w, WindowHandler(kind), outcome)

\* AppKit delivers an input event to the view of `w`, which exists as long as
\* it is retained.  `quit`: the event is Command-q or Command-w and the view
\* has allow_quit (a view keeps its allow_quit when its window is destroyed).
InputEvent(w, kind, quit, outcome) ==
  /\ Idle /\ ViewRetained(life, w, main_queue)
  /\ quit => kind = "keyDown" /\ (visage_window[w] => allow_quit[w])
  /\ (outcome = "call") => ~visage_window[w]   \* read only on a null back-reference
  /\ Commit(InputEventHandler(BeginEvent(<<"input", w, kind, visage_window[w]>>),
                              w, kind, quit, outcome))
  /\ RendIdle /\ UNCHANGED <<surfVars, mouseVars>>

\* visage::Point * float: both coordinates are scaled
PointTimes(p, s) == <<p[1] * s, p[2] * s>>

\* an eventPosition: that does not flip y
EventPositionUnflipped(p, view_height, scale) == PointTimes(<<p[1], p[2]>>, scale)

\* eventPosition: `p` is the event's location converted to the view
\* (origin bottom left), view_height is self.frame.size.height
EventPosition(p, view_height, scale) ==
  PointTimes(<<p[1], view_height - p[2]>>, scale)

\* dragPosition:
DragPosition(p, view_height, scale) ==
  PointTimes(<<p[1], view_height - p[2]>>, scale)

\* a mouse event (or a drag) at the native point <<x, y>> of a view of the
\* given height whose window has the given DPI scale is converted
PointConverted(drag, x, y, view_height, scale) ==
  /\ Idle
  /\ Commit(BeginEvent(
       IF drag
         THEN <<"dragPosition", <<x, y>>, view_height, scale,
                DragPosition(<<x, y>>, view_height, scale)>>
         ELSE <<"eventPosition", <<x, y>>, view_height, scale,
                EventPosition(<<x, y>>, view_height, scale)>>))
  /\ RendIdle /\ UNCHANGED <<surfVars, mouseVars>>

\* the cases of the switch of translateKeyCode: <<value of the kVK_ constant,
\* KeyCode returned>>
KeyCases ==
  << <<0, "A">>, <<1, "S">>, <<2, "D">>, <<3, "F">>, <<4, "H">>, <<5, "G">>,
     <<6, "Z">>, <<7, "X">>, <<8, "C">>, <<9, "V">>, <<11, "B">>,
     <<12, "Q">>, <<13, "W">>, <<14, "E">>, <<15, "R">>, <<16, "Y">>,
     <<17, "T">>, <<18, "Number1">>, <<19, "Number2">>, <<20, "Number3">>,
     <<21, "Number4">>, <<22, "Number6">>, <<23, "Number5">>,
     <<24, "Equals">>, <<25, "Number9">>, <<26, "Number7">>, <<27, "Minus">>,
     <<28, "Number8">>, <<29, "Number0">>, <<30, "RightBracket">>,
     <<31, "O">>, <<32, "U">>, <<33, "LeftBracket">>, <<34, "I">>,
     <<35, "P">>, <<37, "L">>, <<38, "J">>, <<39, "Apostrophe">>,
     <<40, "K">>, <<41, "Semicolon">>, <<42, "Backslash">>, <<43, "Comma">>,
     <<44, "Slash">>, <<45, "N">>, <<46, "M">>, <<47, "Period">>,
     <<50, "Grave">>, <<65, "KPDecimal">>, <<67, "KPMultiply">>,
     <<69, "KPPlus">>, <<71, "KPClear">>, <<75, "KPDivide">>,
     <<76, "KPEnter">>, <<78, "KPMinus">>, <<81, "KPEquals">>, <<82, "KP0">>,
     <<83, "KP1">>, <<84, "KP2">>, <<85, "KP3">>, <<86, "KP4">>,
     <<87, "KP5">>, <<88, "KP6">>, <<89, "KP7">>, <<91, "KP8">>,
     <<92, "KP9">>, <<36, "Return">>, <<48, "Tab">>, <<49, "Space">>,
     <<51, "Backspace">>, <<53, "Escape">>, <<55, "LGui">>, <<56, "LShift">>,
     <<57, "CapsLock">>, <<58, "LAlt">>, <<59, "LCtrl">>, <<54, "RGui">>,
     <<60, "RShift">>, <<61, "RAlt">>, <<62, "RCtrl">>, <<72, "VolumeUp">>,
     <<73, "VolumeDown">>, <<74, "Mute">>, <<122, "F1">>, <<120, "F2">>,
     <<99, "F3">>, <<118, "F4">>, <<96, "F5">>, <<97, "F6">>, <<98, "F7">>,
     <<100, "F8">>, <<101, "F9">>, <<109, "F10">>, <<103, "F11">>,
     <<111, "F12">>, <<105, "F13">>, <<107, "F14">>, <<113, "F15">>,
     <<106, "F16">>, <<64, "F17">>, <<79, "F18">>, <<80, "F19">>,
     <<90, "F20">>, <<114, "Help">>, <<115, "Home">>, <<116, "PageUp">>,
     <<117, "Delete">>, <<119, "End">>, <<121, "PageDown">>, <<123, "Left">>,
     <<124, "Right">>, <<125, "Down">>, <<126, "Up">> >>

NativeKeyCodes == (0 - 1)..MaxKeyCode

\* a translateKeyCode whose switch has no default
TranslateKeyCodeNoDefault(mac_key_code) ==
  LET hits == {i \in 1..Len(KeyCases) : KeyCases[i][1] = mac_key_code}
  IN  IF hits = {} THEN "" ELSE KeyCases[CHOOSE i \in hits : TRUE][2]

\* translateKeyCode
TranslateKeyCode(mac_key_code) ==
  LET hits == {i \in 1..Len(KeyCases) : KeyCases[i][1] = mac_key_code}
  IN  IF hits = {} THEN "Unknown" ELSE KeyCases[CHOOSE i \in hits : TRUE][2]

\* keyDown: / keyUp: translate the key code of their event
KeyTranslated(mac_key_code) ==
  /\ Idle
  /\ Commit(BeginEvent(<<"translateKeyCode", mac_key_code,
                         TranslateKeyCode(mac_key_code)>>))
  /\ RendIdle /\ UNCHANGED <<surfVars, mouseVars>>

\* int / int of C++: the quotient is truncated towards zero
CDiv(a, b) == IF a >= 0 THEN a \div b ELSE 0 - ((0 - a) \div b)

\* a Dimension: left at its default, or a number of logical pixels
DefaultDimension == [kind |-> "default", amount |-> 0]
LogicalPixels(a) == [kind |-> "px", amount |-> a]

\* Dimension::computeInt(dpi_scale, parent_width, parent_height, default_value)
ComputeInt(d, scale, parent_width, parent_height, default_value) ==
  IF d.kind = "default" THEN default_value ELSE d.amount * scale

\* a computeWindowBoundsWithScale that centres on the size of the screen in points
ComputeWindowBoundsInPoints(x, y, w, h, screens, main) ==
  LET screen        == screens[1]
      scale         == screen.scale
      width         == ComputeInt(w, scale, screen.width, screen.height, 0)
      height        == ComputeInt(h, scale, screen.width, screen.height, 0)
      x_pos         == ComputeInt(x, scale, screen.width, screen.height,
                                  CDiv(screen.width - width, 2))
      y_pos         == ComputeInt(y, scale, screen.width, screen.height,
                                  CDiv(screen.height - height, 2))
  IN  [x |-> x_pos, y |-> screen.height - y_pos - height,
       width |-> width, height |-> height, scale |-> scale,
       screen_width |-> screen.width, screen_height |-> screen.height]

\* computeWindowBoundsWithScale: `screens` is [NSScreen screens], `main` the
\* index of [NSScreen mainScreen] in it
ComputeWindowBoundsWithScale(x, y, w, h, screens, main) ==
  LET scale0  == screens[main].scale
      width0  == screens[main].width * scale0
      height0 == screens[main].height * scale0
      x0      == ComputeInt(x, scale0, width0, height0, 0)
      y0      == ComputeInt(y, scale0, width0, height0, 0)
      \* NSPointInRect(CGPointMake(x_pos, y_pos), [s frame])
      under   == {i \in 1..Len(screens) :
                    /\ screens[i].x <= x0 /\ x0 < screens[i].x + screens[i].width
                    /\ screens[i].y <= y0 /\ y0 < screens[i].y + screens[i].height}
      screen  == IF under = {} THEN screens[main]
                 ELSE screens[CHOOSE i \in under : \A j \in under : i <= j]
      scale         == screen.scale
      screen_width  == screen.width * scale
      screen_height == screen.height * scale
      width         == ComputeInt(w, scale, screen_width, screen_height, 0)
      height        == ComputeInt(h, scale, screen_width, screen_height, 0)
      default_x     == CDiv(screen_width - width, 2)
      default_y     == CDiv(screen_height - height, 2)
      x_pos         == ComputeInt(x, scale, screen_width, screen_height, default_x)
      y_pos         == ComputeInt(y, scale, screen_width, screen_height, default_y)
  IN  [x |-> x_pos, y |-> screen_height - y_pos - height,
       width |-> width, height |-> height, scale |-> scale,
       screen_width |-> screen_width, screen_height |-> screen_height]

\* the screens: one, or two side by side, the first with the origin
ScreenAt(x, size, scale) ==
  [x |-> x, y |-> 0, width |-> size[1], height |-> size[2], scale |-> scale]
ScreenLists ==
  LET ScreenSizes == {<<1920, 1080>>, <<1440, 900>>}
  IN  {<<ScreenAt(0, a, s)>> : a \in ScreenSizes, s \in SurfScales}
        \cup {<<ScreenAt(0, a, s), ScreenAt(a[1], b, r)>> :
                a \in ScreenSizes, s \in SurfScales,
                b \in {<<1440, 900>>}, r \in SurfScales}

\* createWindow(x, y, width, height, decoration) computes the bounds
WindowBoundsComputed(x, y, w, h, screens, main) ==
  /\ Idle
  /\ Commit(BeginEvent(<<"computeWindowBounds", <<x, y, w, h>>, screens, main,
                         ComputeWindowBoundsWithScale(x, y, w, h, screens, main)>>))
  /\ RendIdle /\ UNCHANGED <<surfVars, mouseVars>>

\* adjustBoundsForAspectRatio: the size that has the ratio <<num, den>>; the
\* axis being resized is kept and the other one follows it.  The result is a
\* pair of fractions <<numerator, denominator>>.
AdjustBoundsForAspectRatio(current, ratio, horizontal_resize, vertical_resize) ==
  LET from_width  == <<<<current[1], 1>>, <<current[1] * ratio[2], ratio[1]>>>>
      from_height == <<<<current[2] * ratio[1], ratio[2]>>, <<current[2], 1>>>>
  IN  IF horizontal_resize /\ ~vertical_resize THEN from_width
      ELSE IF vertical_resize /\ ~horizontal_resize THEN from_height
      ELSE IF current[1] * ratio[2] >= current[2] * ratio[1] THEN from_width
      ELSE from_height

\* an adjustWindowDimensions that lets the width follow the height
AdjustWindowDimensionsFromHeight(size, horizontal_resize, vertical_resize, ratio, min) ==
  IF ratio[1] # 0
    THEN LET adjusted == AdjustBoundsForAspectRatio(size, ratio, FALSE, TRUE)
         IN  <<adjusted[1][1] \div adjusted[1][2], adjusted[2][1] \div adjusted[2][2]>>
    ELSE <<IF min[1] > size[1] THEN min[1] ELSE size[1],
           IF min[2] > size[2] THEN min[2] ELSE size[2]>>

\* ApplicationEditor::adjustWindowDimensions: `ratio` is fixed_aspect_ratio_
\* (0 when the ratio is not fixed), `min` is <<min_width, min_height>>; the
\* assignment to *width and *height truncates
AdjustWindowDimensions(size, horizontal_resize, vertical_resize, ratio, min) ==
  IF ratio[1] # 0
    THEN LET adjusted == AdjustBoundsForAspectRatio(size, ratio, horizontal_resize,
                                                    vertical_resize)
         IN  <<adjusted[1][1] \div adjusted[1][2], adjusted[2][1] \div adjusted[2][2]>>
    ELSE <<IF min[1] > size[1] THEN min[1] ELSE size[1],
           IF min[2] > size[2] THEN min[2] ELSE size[2]>>

\* a windowWillResize:toSize: that answers with the size of the content
\* instead of the size of the frame
WindowWillResizeContentSize(current_frame, frame_size, flags, borders, scale, ratio, min) ==
  LET horizontal == flags[1] \/ current_frame[1] # frame_size[1]
      vertical   == flags[2] \/ current_frame[2] # frame_size[2]
      width      == scale * (frame_size[1] - borders[1])
      height     == scale * (frame_size[2] - borders[2])
      adjusted   == AdjustWindowDimensions(<<width, height>>, horizontal, vertical,
                                           ratio, min)
  IN  [resizing_horizontal |-> horizontal, resizing_vertical |-> vertical,
       proposed |-> <<width, height>>, adjusted |-> adjusted,
       size |-> adjusted]

\* a windowWillResize:toSize: whose flags tell only of the present proposal
WindowWillResizeForgets(current_frame, frame_size, flags, borders, scale, ratio, min) ==
  LET horizontal == current_frame[1] # frame_size[1]
      vertical   == current_frame[2] # frame_size[2]
      width      == scale * (frame_size[1] - borders[1])
      height     == scale * (frame_size[2] - borders[2])
      adjusted   == AdjustWindowDimensions(<<width, height>>, horizontal, vertical,
                                           ratio, min)
  IN  [resizing_horizontal |-> horizontal, resizing_vertical |-> vertical,
       proposed |-> <<width, height>>, adjusted |-> adjusted,
       size |-> <<adjusted[1] + scale * borders[1], adjusted[2] + scale * borders[2]>>]

\* windowWillResize:toSize: of VisageAppWindowDelegate. `flags` is
\* <<resizing_horizontal, resizing_vertical>> before the call; sizes of frames
\* are in points; the size returned is given in physical pixels
\* (points * scale), the unit in which it is exact.
WindowWillResize(current_frame, frame_size, flags, borders, scale, ratio, min) ==
  LET horizontal == flags[1] \/ current_frame[1] # frame_size[1]
      vertical   == flags[2] \/ current_frame[2] # frame_size[2]
      width      == scale * (frame_size[1] - borders[1])
      height     == scale * (frame_size[2] - borders[2])
      adjusted   == AdjustWindowDimensions(<<width, height>>, horizontal, vertical,
                                           ratio, min)
  IN  [resizing_horizontal |-> horizontal, resizing_vertical |-> vertical,
       proposed |-> <<width, height>>, adjusted |-> adjusted,
       size |-> <<adjusted[1] + scale * borders[1], adjusted[2] + scale * borders[2]>>]

\* the window proposes a frame size during a live resize
WindowResizeProposed(current_frame, frame_size, flags, scale, ratio, min) ==
  /\ Idle
  /\ Commit(BeginEvent(<<"windowWillResize", frame_size, scale, ratio,
                         WindowWillResize(current_frame, frame_size, flags,
                                          <<0, 28>>, scale, ratio, min),
                         flags, min>>))
  /\ RendIdle /\ UNCHANGED <<surfVars, mouseVars>>

\* WindowMac::resetBackingScale: `backing` is the backingScaleFactor of the
\* window behind window_handle_, `dpi` the DPI scale so far
ResetBackingScale(s, w, dpi, backing) ==
  IF s.window_handle[w] # "null" THEN backing ELSE dpi

\* viewDidChangeBackingProperties of the view of `w`, whose layer and owning
\* window both had the scale `old`, in a window whose backingScaleFactor is
\* now `backing`
ViewDidChangeBackingProperties(s, w, old, backing) ==
  LET v == UpdateMetalLayerDrawableSize(
             [bounds |-> <<100, 50>>, contents_scale |-> old,
              drawable |-> <<100 * old, 50 * old>>,
              in_window |-> s.view_in_window[w], backing |-> backing])
  IN  [contents_scale |-> v.contents_scale, drawable |-> v.drawable,
       dpi_scale |-> IF s.visage_window[w]
                       THEN ResetBackingScale(s, w, old, backing) ELSE old]

\* the window that holds the view of `w` changes its backing scale: the
\* NSWindow of `w` itself, or the host's window around an embedded view
BackingPropertiesChanged(w, old, backing) ==
  /\ Idle /\ life[w] = "live" /\ view_in_window[w]
  /\ window_handle[w] # "null" \/ parent_view[w]
  /\ Commit(BeginEvent(<<"viewDidChangeBackingProperties", w, old, backing,
                         ViewDidChangeBackingProperties(Cur, w, old, backing)>>))
  /\ RendIdle /\ UNCHANGED <<surfVars, mouseVars>>

\* ------------------------------------------------------- ApplicationEditor
\* The editor is carried by the log: the head of the log is
\* <<call, editor, ...>> with the editor as the call left it, followed by what
\* the call did (init, drawToRegion of a frame, submit).
Frames  == 1..MaxFrames
NoFrame == 0
IsDrawing(f) == f < MaxFrames       \* frame->isDrawing()

\* stale: stale_children_; visible: window_->isVisible(); zero: width() or
\* height() is 0; owed: the drawing frames with a request_redraw that no
\* draw has begun after; intact: no iterator into stale_children_ was used
\* after the vector had moved
EditorInit ==
  [stale |-> << >>, visible |-> TRUE, zero |-> FALSE, initialized |-> FALSE,
   owed |-> {}, intact |-> TRUE]

Editor == IF log = << >> THEN EditorInit ELSE Head(log)[2]

\* vector::erase of the element at position i
RemoveAt(seq, i) == SubSeq(seq, 1, i - 1) \o SubSeq(seq, i + 1, Len(seq))

\* event_handler_.request_redraw
RequestRedraw(stale, frame) ==
  IF \A i \in 1..Len(stale) : stale[i] # frame THEN Append(stale, frame) ELSE stale

\* event_handler_.remove_from_hierarchy: std::find, then erase of that position
RemoveFromHierarchy(stale, frame) ==
  LET found == {i \in 1..Len(stale) : stale[i] = frame}
  IN  IF found = {} THEN stale
      ELSE RemoveAt(stale, CHOOSE i \in found : \A j \in found : i <= j)

\* child->drawToRegion(*canvas_): the draw, in which the frame asks for the
\* redraw of req[child], if any (once in a drawStaleChildren); `pushed` tells
\* that stale_children_ grew while the second loop held an iterator into it
DrawToRegion(d, child, second) ==
  LET frame == d.req[child]
      d1    == [d EXCEPT !.drawn = Append(@, child), !.owed = @ \ {child}]
  IN  IF frame = NoFrame THEN d1
      ELSE [d1 EXCEPT !.stale = RequestRedraw(@, frame),
                      !.owed = IF IsDrawing(frame) THEN @ \cup {frame} ELSE @,
                      !.req[child] = NoFrame,
                      !.pushed = @ \/ (second /\ RequestRedraw(d1.stale, frame) # d1.stale)]

\* drawStaleChildren, first loop: the frames that were stale at the swap
RECURSIVE FirstLoop(_, _, _)
FirstLoop(d, drawing_children, i) ==
  IF i > Len(drawing_children) THEN d
  ELSE FirstLoop(IF IsDrawing(drawing_children[i])
                   THEN DrawToRegion(d, drawing_children[i], FALSE) ELSE d,
                 drawing_children, i + 1)

\* drawStaleChildren, second loop: the frames that became stale meanwhile and
\* were not drawn in the first loop are drawn and erased
RECURSIVE SecondLoop(_, _, _)
SecondLoop(d, drawing_children, it) ==
  IF it > Len(d.stale) THEN d
  ELSE IF \A i \in 1..Len(drawing_children) : drawing_children[i] # d.stale[it]
    THEN LET d1 == DrawToRegion(d, d.stale[it], TRUE)
         IN  SecondLoop([d1 EXCEPT !.stale = RemoveAt(@, it)], drawing_children, it)
    ELSE SecondLoop(d, drawing_children, it + 1)

\* ApplicationEditor::drawStaleChildren
DrawStaleChildren(e, req) ==
  LET drawing_children == e.stale
      d0 == [stale |-> << >>, drawn |-> << >>, owed |-> e.owed, req |-> req,
             pushed |-> FALSE]
  IN  SecondLoop(FirstLoop(d0, drawing_children, 1), drawing_children, 1)

\* a drawWindow that draws whether the window is visible or not
EditorDrawWindowHidden(e, req) ==
  IF e.zero THEN [editor |-> e, out |-> << >>, pushed |-> FALSE]
  ELSE LET init == IF e.initialized THEN << >> ELSE << <<"init">> >>
           e1   == [e EXCEPT !.initialized = TRUE]
           d    == DrawStaleChildren(e1, req)
       IN  IF e1.stale = << >>
             THEN [editor |-> e1, out |-> init, pushed |-> FALSE]
             ELSE [editor |-> [e1 EXCEPT !.stale = d.stale, !.owed = d.owed],
                   out |-> init \o [i \in 1..Len(d.drawn) |-> <<"drawToRegion", d.drawn[i]>>]
                                \o << <<"submit">> >>,
                   pushed |-> d.pushed]

\* ApplicationEditor::drawWindow
EditorDrawWindow(e, req) ==
  IF ~e.visible \/ e.zero THEN [editor |-> e, out |-> << >>, pushed |-> FALSE]
  ELSE LET init == IF e.initialized THEN << >> ELSE << <<"init">> >>
           e1   == [e EXCEPT !.initialized = TRUE]
           d    == DrawStaleChildren(e1, req)
       IN  IF e1.stale = << >>
             THEN [editor |-> e1, out |-> init, pushed |-> FALSE]
             ELSE [editor |-> [e1 EXCEPT !.stale = d.stale, !.owed = d.owed],
                   out |-> init \o [i \in 1..Len(d.drawn) |-> <<"drawToRegion", d.drawn[i]>>]
                                \o << <<"submit">> >>,
                   pushed |-> d.pushed]

\* a frame calls request_redraw outside drawStaleChildren
RequestRedrawCall(frame) ==
  /\ Idle /\ Editor.intact
  /\ Commit(BeginEvent(<<"request_redraw",
                         [Editor EXCEPT !.stale = RequestRedraw(@, frame),
                                        !.owed = IF IsDrawing(frame)
                                                   THEN @ \cup {frame} ELSE @],
                         frame>>))
  /\ RendIdle /\ UNCHANGED <<surfVars, mouseVars>>

\* a frame leaves the hierarchy, outside drawStaleChildren
RemoveFromHierarchyCall(frame) ==
  /\ Idle /\ Editor.intact
  /\ Commit(BeginEvent(<<"remove_from_hierarchy",
                         [Editor EXCEPT !.stale = RemoveFromHierarchy(@, frame),
                                        !.owed = @ \ {frame}],
                         frame>>))
  /\ RendIdle /\ UNCHANGED <<surfVars, mouseVars>>

\* what the frames ask for while they draw in one drawStaleChildren: req[f]
\* is the frame whose redraw f requests, if any; at most two frames ask
Requests ==
  {req \in [Frames -> Frames \cup {NoFrame}] :
     Cardinality({f \in Frames : req[f] # NoFrame}) <= 2}

\* the draw callback of the window runs drawWindow.  A push_back while the
\* second loop holds its iterator moves the vector when its capacity is used
\* up; erase and ++ on the iterator are then undefined: the process ends, or
\* goes on with stale_children_ holding whatever the memory gives
DrawWindowCall(req) ==
  /\ Idle /\ Editor.intact
  /\ LET r     == EditorDrawWindow(Editor, req)
         moved == IF r.pushed
                    THEN {[r.editor EXCEPT !.stale = garbage, !.intact = FALSE] :
                            garbage \in [1..2 -> Frames]}
                    ELSE {}
     IN  \E e \in {r.editor} \cup moved, crash \in BOOLEAN :
           /\ crash => (r.pushed /\ e = r.editor)
           /\ Commit([Cur EXCEPT !.log = << <<"drawWindow", e>> >> \o r.out,
                                 !.crashed = crash])
  /\ RendIdle /\ UNCHANGED <<surfVars, mouseVars>>

\* the window of the editor is shown or hidden, the editor gets a size or
\* loses it
EditorWindowChanged(vis, zero) ==
  /\ Idle /\ Editor.intact /\ <<vis, zero>> # <<Editor.visible, Editor.zero>>
  /\ Commit(BeginEvent(<<"window", [Editor EXCEPT !.visible = vis,
                                                  !.zero = zero]>>))
  /\ RendIdle /\ UNCHANGED <<surfVars, mouseVars>>

\* The live-resize gesture under way, read from the log of the gesture: the
\* frame size of the window and the delegate's flags
\* <<resizing_horizontal, resizing_vertical>> after the last entry.
Gesture ==
  LET last == log[Len(log)]
  IN  IF last[1] = "windowWillStartLiveResize"
        THEN [frame |-> last[2], flags |-> last[3]]
        ELSE [frame |-> last[4].size,
              flags |-> <<last[4].resizing_horizontal, last[4].resizing_vertical>>]

\* windowWillStartLiveResize: of a window of 300 by 228 points, or of the
\* size the gesture before left it with
LiveResizeStarts ==
  /\ Idle
  /\ LET frame == IF log = << >> THEN <<300, 228>> ELSE Gesture.frame
     IN  Commit(BeginEvent(<<"windowWillStartLiveResize", frame, <<FALSE, FALSE>> >>))
  /\ RendIdle /\ UNCHANGED <<surfVars, mouseVars>>

\* windowWillResize:toSize: during the gesture, at scale 1 and without aspect
\* ratio; the window takes the size returned
LiveResizeProposes(frame_size) ==
  /\ Idle /\ log # << >> /\ Len(log) <= MaxResizeSteps
  /\ Commit(Emit(Cur, <<"windowWillResize", Gesture.frame, frame_size,
                        WindowWillResize(Gesture.frame, frame_size, Gesture.flags,
                                         <<0, 28>>, 1, <<0, 1>>, <<0, 0>>)>>))
  /\ RendIdle /\ UNCHANGED <<surfVars, mouseVars>>

\* A block whose view pointer was not retained in time: DisplayLinkCallback
\* gets the view as an unretained context pointer, and a retain of an object
\* whose dealloc has begun does not keep it.
Dangling(w) == 0 - w

\* dealloc of the view of `w` has begun (nothing retains the view) and has
\* not reached CVDisplayLinkStop yet
Deallocating(w) ==
  life[w] = "destroyed" /\ link_running[w] /\ w \notin Range(main_queue)

\* ~WindowMac lets go of the last reference to the view: dealloc begins
DestroyBeginsDealloc(w) ==
  /\ Idle /\ life[w] = "live" /\ w \notin Range(main_queue)
  /\ Commit(DestroyWindow(Begin("~WindowMac"), w))
  /\ last_thread' = "ui"
  /\ UNCHANGED <<main_queue, needs_display, display_count, draw_count,
                 link_running, draw_calls, surfVars, mouseVars>>

\* DisplayLinkCallback on the timing thread while dealloc runs on the UI thread
DisplayLinkCallbackDuringDealloc(w) ==
  /\ ~crashed /\ Deallocating(w) /\ Len(main_queue) < MaxQueue
  /\ main_queue' = Append(main_queue, Dangling(w))
  /\ last_thread' = "timing"
  /\ UNCHANGED <<needs_display, display_count, draw_count, link_running, draw_calls>>
  /\ UNCHANGED <<winVars, surfVars, mouseVars>>

\* dealloc: CVDisplayLinkStop, CVDisplayLinkRelease; the view is freed
DeallocStopsLink(w) ==
  /\ ~crashed /\ Deallocating(w)
  /\ link_running' = [link_running EXCEPT ![w] = FALSE]
  /\ needs_display' = [needs_display EXCEPT ![w] = FALSE]
  /\ last_thread' = "ui"
  /\ UNCHANGED <<main_queue, display_count, draw_count, draw_calls>>
  /\ UNCHANGED <<winVars, surfVars, mouseVars>>

\* the block of a callback that raced with dealloc runs
\* markNeedsDisplayFromDisplayLink on the freed view: a use after free, which
\* ends the process or counts and marks in freed memory
MarkNeedsDisplayOnDeallocated(w, outcome) ==
  /\ Idle /\ ~Deallocating(w)
  /\ main_queue # << >> /\ Head(main_queue) = Dangling(w)
  /\ display_count[w] < MaxTicks
  /\ main_queue' = Tail(main_queue)
  /\ Commit([Cur EXCEPT !.crashed = (outcome = "crash"),
                        !.log = << <<"useAfterFree", w>> >>])
  /\ display_count' = [display_count EXCEPT
                         ![w] = IF outcome = "crash" THEN @ ELSE @ + 1]
  /\ last_thread' = "ui"
  /\ UNCHANGED <<needs_display, draw_count, link_running, draw_calls>>
  /\ UNCHANGED <<surfVars, mouseVars>>

\* WindowMac::runEventLoop with applicationDidFinishLaunching:
RunEventLoop(w) ==
  /\ Idle /\ life[w] = "live" /\ ~parent_view[w] /\ ~running_event_loop
  /\ LET s0 == [Begin("runEventLoop") EXCEPT !.running_event_loop = TRUE]
     IN  Commit(IF window_handle[w] = "ns"
                  THEN Emit([s0 EXCEPT !.ns_delegate[w] = TRUE], <<"setDelegate">>)
                  ELSE s0)
  /\ RendIdle /\ UNCHANGED <<surfVars, mouseVars>>

\* applicationShouldTerminate: of VisageAppDelegate
ShouldTerminate(s, answers) ==
  LET r == RequestAllToClose(s, answers)
  IN  Emit(r.s, <<IF r.result THEN "NSTerminateNow" ELSE "NSTerminateCancel">>)

ApplicationShouldTerminate(answers) ==
  /\ Idle /\ running_event_loop
  \* only registered windows are asked: the answer of any other is FALSE
  /\ \A v \in Windows :
       answers[v] => \E h \in DOMAIN native_window_lookup : native_window_lookup[h] = v
  /\ Commit(ShouldTerminate(Begin("applicationShouldTerminate:"), answers))
  /\ RendIdle /\ UNCHANGED <<surfVars, mouseVars>>

\* ------------------------------------------------------------ specification
RendInit ==
  /\ main_queue = << >>
  /\ needs_display = [w \in Windows |-> FALSE]
  /\ display_count = [w \in Windows |-> 0]
  /\ draw_count = [w \in Windows |-> 0]
  /\ link_running = [w \in Windows |-> FALSE]
  /\ draw_calls = [w \in Windows |-> 0]
  /\ last_thread = "ui"

SurfInit ==
  /\ surf_pc = "unborn"
  /\ bounds_size = <<0, 0>>
  /\ contents_scale = 1
  /\ drawable_size = <<0, 0>>
  /\ surf_in_window = FALSE
  /\ backing_scale = 1

WinFields ==
  /\ life = [w \in Windows |-> "none"]
  /\ parent_view = [w \in Windows |-> FALSE]
  /\ window_handle = [w \in Windows |-> "null"]
  /\ last_content_rect = [w \in Windows |-> ZeroRect]
  /\ visage_window = [w \in Windows |-> FALSE]
  /\ decoration = [w \in Windows |-> "native"]
  /\ allow_quit = [w \in Windows |-> FALSE]
  /\ visible = [w \in Windows |-> "initial"]
  /\ native_window_lookup = << >>
  /\ running_event_loop = FALSE
  /\ crashed = FALSE
  /\ added = {}
  /\ ns_visible = [w \in Windows |-> FALSE]
  /\ ns_delegate = [w \in Windows |-> FALSE]
  /\ ns_rect = [w \in Windows |-> ZeroRect]
  /\ view_in_window = [w \in Windows |-> FALSE]
  /\ host_visible = TRUE
  /\ closing = NoWindow
  /\ pending = {}
  /\ observing = [w \in Windows |-> {}]
  /\ close_all = << >>
  /\ log = << >>

\* every window object has a view of its own, which is its handle
WinInit == WinFields /\ native_handle = [w \in Windows |-> w]

MouseInit ==
  /\ mouse_down_screen_position = [w \in Windows |-> ZeroPoint]
  /\ cursor = 1
  /\ held = [w \in Windows |-> "none"]
  /\ last_down = [w \in Windows |-> ZeroPoint]

Init == WinInit /\ RendInit /\ SurfInit /\ MouseInit

\* the registry on its own: addWindow and removeWindow are given window
\* objects whose nativeHandle() may be any handle
InitLookup ==
  /\ WinFields /\ native_handle \in [Windows -> Handles]
  /\ RendInit /\ SurfInit /\ MouseInit

\* Window lifecycle of the windows W, constructed with a rectangle of R and a
\* decoration of D.
Lifecycle(W, R, D) ==
  \/ \E w \in W, r \in R, d \in D : ConstructStandalone(w, r, d)
  \/ \E w \in W, hosted \in BOOLEAN : ConstructEmbedded(w, hosted)
  \/ \E w \in W : Destroy(w)
  \/ \E w \in W : Show(w)
  \/ \E w \in W : HideCall(w)
  \/ \E w \in W, ans \in BOOLEAN, a \in BOOLEAN : Close(w, ans, a)
  \/ \E w \in W, ans \in BOOLEAN : UserClose(w, ans)
  \/ \E w \in W : CloseWindowCall(w)
  \/ \E w \in W : WindowWillClose(w)
  \/ \E w \in W : ViewDetached(w)
  \/ \E w \in W : CloseDone(w)
  \/ \E w \in W : HostAttach(w)
  \/ \E w \in W : HostDetach(w)
  \/ \E b \in BOOLEAN : HostSetVisible(b)
  \/ \E w \in W : RunEventLoop(w)
  \/ \E ans \in Answers : ApplicationShouldTerminate(ans)

\* Spec: every window, each constructed with the same rectangle and never
\* resized by the user.
Next == Lifecycle(Windows, {FirstRect}, {"native"})

Spec == Init /\ [][Next]_vars

\* SpecOne: one window, every rectangle and decoration, resized by the user,
\* maximized, occluded.
NextOne ==
  \/ Lifecycle({1}, Rects, Decorations)
  \/ \E r \in Rects : UserResize(1, r)
  \/ ShowMaximized(1)
  \/ \E vis \in BOOLEAN : OcclusionChanged(1, vis)
  \/ \E vis \in BOOLEAN : HostOcclusionChanged(vis)

SpecOne == Init /\ [][NextOne]_vars

\* SpecQuit: closeAll(), from closeApplication() and from the quit shortcut,
\* over every window; key events.
NextQuit ==
  \/ \E w \in Windows : ConstructStandalone(w, FirstRect, "native")
  \/ \E w \in Windows, hosted \in BOOLEAN : ConstructEmbedded(w, hosted)
  \/ \E w \in Windows : Show(w)
  \/ \E w \in Windows : RunEventLoop(w)
  \/ CloseApplication
  \/ \E ans \in BOOLEAN, a \in BOOLEAN : CloseAllNext(ans, a)
  \/ \E w \in Windows, command \in BOOLEAN, ch \in Chars, handled \in BOOLEAN :
       KeyDown(w, command, ch, handled)
  \/ \E w \in Windows, handled \in BOOLEAN : KeyUp(w, handled)
  \/ \E w \in Windows : WindowWillClose(w)
  \/ \E w \in Windows : ViewDetached(w)
  \/ \E w \in Windows : CloseDone(w)

SpecQuit == Init /\ [][NextQuit]_vars

\* SpecLookup: the registry under every sequence of addWindow/removeWindow.
NextLookup ==
  \/ \E w \in Windows : LookupAddWindow(w)
  \/ \E w \in Windows : LookupRemoveWindow(w)

SpecLookup == InitLookup /\ [][NextLookup]_vars

\* SpecMouse: one window of every decoration, shown, clicked and dragged.
NextMouse ==
  \/ \E d \in Decorations : ConstructStandalone(1, FirstRect, d)
  \/ \E hosted \in BOOLEAN : ConstructEmbedded(1, hosted)
  \/ Show(1)
  \/ ShowMaximized(1)
  \/ \E pos \in Positions : CursorMoved(pos)
  \/ \E button \in Buttons : MouseDown(1, button)
  \/ MouseUp(1)
  \/ \E pos \in Positions, relative \in BOOLEAN : MouseDragged(1, pos, relative)

SpecMouse == Init /\ [][NextMouse]_vars

\* SpecInput: one window, constructed, shown, closed and destroyed while
\* blocks of its display link wait on the main queue; input events reach its
\* view as long as the view exists.
NextInput ==
  \/ ConstructStandalone(1, FirstRect, "native")
  \/ \E hosted \in BOOLEAN : ConstructEmbedded(1, hosted)
  \/ Show(1)
  \/ RunEventLoop(1)
  \/ Destroy(1)
  \/ DisplayLinkCallback(1)
  \/ MarkNeedsDisplayFromDisplayLink(1)
  \/ \E kind \in Events, quit \in BOOLEAN, outcome \in Outcomes :
       InputEvent(1, kind, quit, outcome)
  \/ \E ans \in BOOLEAN, a \in BOOLEAN : CloseAllNext(ans, a)
  \/ WindowWillClose(1)
  \/ ViewDetached(1)
  \/ CloseDone(1)

SpecInput == Init /\ [][NextInput]_vars

\* SpecPoint: every native point of a view of every height, at every scale.
NextPoint ==
  \E drag \in BOOLEAN, x \in 0..MaxPos, h \in 1..ScreenHeight, scale \in SurfScales :
    \E y \in 0..h : PointConverted(drag, x, y, h, scale)

SpecPoint == Init /\ [][NextPoint]_vars

\* SpecKey: every native key code.
NextKey == \E c \in NativeKeyCodes : KeyTranslated(c)

SpecKey == Init /\ [][NextKey]_vars

\* SpecBounds: the bounds of a window of every requested size and origin
\* on every arrangement of screens.
NextBounds ==
  LET WindowWidths  == {LogicalPixels(800), LogicalPixels(3), LogicalPixels(2000)}
      WindowHeights == {LogicalPixels(600), LogicalPixels(1)}
      WindowOrigins == {DefaultDimension, LogicalPixels(1500)}
  IN  \E x \in WindowOrigins, y \in WindowOrigins, w \in WindowWidths,
         h \in WindowHeights, screens \in ScreenLists :
        \E main \in 1..Len(screens) : WindowBoundsComputed(x, y, w, h, screens, main)

SpecBounds == Init /\ [][NextBounds]_vars

\* SpecResize: one step of a live resize of a window of 300 by 228 points,
\* with every state of the delegate's flags, ratio and minimum size.
NextResize ==
  \E w \in {300, 301, 450}, h \in {228, 278}, flags \in BOOLEAN \X BOOLEAN,
     scale \in SurfScales, ratio \in {<<0, 1>>, <<3, 2>>, <<16, 9>>},
     min \in {<<0, 0>>, <<400, 400>>} :
    WindowResizeProposed(<<300, 228>>, <<w, h>>, flags, scale, ratio, min)

SpecResize == Init /\ [][NextResize]_vars

\* SpecScale: one window through its life, standalone or embedded, and
\* changes of the backing scale of the window that holds its view.
NextScale ==
  \/ Lifecycle({1}, {FirstRect}, {"native"})
  \/ ShowMaximized(1)
  \/ \E old \in SurfScales, backing \in SurfScales :
       BackingPropertiesChanged(1, old, backing)

SpecScale == Init /\ [][NextScale]_vars

\* SpecEditor: the editor and its frames, until an iterator is used after
\* its vector has moved.
NextEditor ==
  \/ \E frame \in Frames : RequestRedrawCall(frame)
  \/ \E frame \in Frames : RemoveFromHierarchyCall(frame)
  \/ \E req \in Requests : DrawWindowCall(req)
  \/ \E vis \in BOOLEAN, zero \in BOOLEAN : EditorWindowChanged(vis, zero)

SpecEditor == Init /\ [][NextEditor]_vars

\* SpecGesture: live-resize gestures of one window, each of up to
\* MaxResizeSteps proposed frame sizes.
NextGesture ==
  \/ LiveResizeStarts
  \/ \E w \in {300, 301, 302}, h \in {228, 229} : LiveResizeProposes(<<w, h>>)

SpecGesture == Init /\ [][NextGesture]_vars

\* SpecTeardown: one view and its display link, with dealloc in its steps:
\* the last release, then CVDisplayLinkStop, the timing thread running
\* alongside.
NextTeardown ==
  \/ ConstructStandalone(1, FirstRect, "native")
  \/ \E hosted \in BOOLEAN : ConstructEmbedded(1, hosted)
  \/ Destroy(1) /\ 1 \in Range(main_queue)
  \/ DestroyBeginsDealloc(1)
  \/ DeallocStopsLink(1)
  \/ ~Deallocating(1) /\ DisplayLinkCallback(1)
  \/ DisplayLinkCallbackDuringDealloc(1)
  \/ MarkNeedsDisplayFromDisplayLink(1)
  \/ \E outcome \in Outcomes : MarkNeedsDisplayOnDeallocated(1, outcome)
  \/ ~Deallocating(1) /\ DisplayLayer(1)

SpecTeardown == Init /\ [][NextTeardown]_vars

\* SpecRender: one view, its display link, the main queue and the layer.
NextRender ==
  \/ \E r \in {FirstRect} : ConstructStandalone(1, r, "native")
  \/ \E hosted \in BOOLEAN : ConstructEmbedded(1, hosted)
  \/ Destroy(1)
  \/ DisplayLinkCallback(1)
  \/ MarkNeedsDisplayFromDisplayLink(1)
  \/ DisplayLayer(1)

SpecRender == Init /\ [][NextRender]_vars

\* SpecSurface: the layer of one view under resizes and scale changes.
NextSurface ==
  \/ \E size \in SurfSizes : SurfInitWithFrame(size)
  \/ \E size \in SurfSizes : SurfSetFrameSize(size)
  \/ SurfViewDidChangeBackingProperties
  \/ \E scale \in SurfScales : SurfMoveToWindow(scale)
  \/ SurfMoveOutOfWindow
  \/ \E scale \in SurfScales : SurfScreenChange(scale)

SpecSurface == Init /\ [][NextSurface]_vars

\* ------------------------------------------------------------------ properties
\* positions of the log that hold a call of the given name
Tagged(tag) == {i \in 1..Len(log) : log[i][1] = tag}

\* the current top-level event is a close request on a native window
InCloseRequest == log # << >> /\ Head(log)[1] \in {"userClose", "close"}

Entries(w) == {h \in DOMAIN native_window_lookup : native_window_lookup[h] = w}

\* C1: between two events, every live window object (standalone or embedded)
\* has exactly one registry entry, keyed by its native handle, and a destroyed
\* window has none.
C1_OneEntryPerLiveWindow ==
  Idle =>
    \A w \in Windows :
      /\ life[w] = "live" =>
           /\ FindWindow(native_window_lookup, NativeHandle(w)) = w
           /\ Cardinality(Entries(w)) = 1
      /\ life[w] = "destroyed" =>
           /\ Entries(w) = {}
           /\ NativeHandle(w) \notin DOMAIN native_window_lookup

\* C2: findWindow(h) returns w exactly when w was added under h and not
\* removed since, and null for a handle never added or whose window was
\* removed.
C2_FindWindowIffAdded ==
  \A h \in {NativeHandle(w) : w \in Windows} \cup {NoWindow} :
    /\ \A w \in Windows :
         FindWindow(native_window_lookup, h) = w
           <=> (w \in added /\ h = NativeHandle(w))
    /\ FindWindow(native_window_lookup, h) = NoWindow
           <=> ~(\E w \in added : h = NativeHandle(w))

\* a window that was added and removed again while another one is still added
C2_Witness ==
  \E w \in Windows, v \in Windows :
    /\ life[w] = "live" /\ w \notin added
    /\ FindWindow(native_window_lookup, NativeHandle(w)) = NoWindow
    /\ v \in added
    /\ FindWindow(native_window_lookup, NativeHandle(v)) = v

\* C3: requestAllToClose() is true iff closeRequested() is true for every
\* registered window, each of which is asked; applicationShouldTerminate:
\* replies NSTerminateNow exactly when it is true and NSTerminateCancel
\* otherwise.
C3_RequestAllToCloseIffAll ==
  /\ \A answers \in Answers :
       RequestAllToClose(Cur, answers).result
         <=> \A h \in DOMAIN native_window_lookup :
               CloseRequested(answers, native_window_lookup[h])
  /\ (log # << >> /\ Head(log)[1] = "applicationShouldTerminate:") =>
       /\ \A h \in DOMAIN native_window_lookup :
            Cardinality({i \in Tagged("closeRequested") :
                           log[i][2] = native_window_lookup[h]}) = 1
       /\ log[Len(log)][1] \in {"NSTerminateNow", "NSTerminateCancel"}
       /\ log[Len(log)][1] = "NSTerminateNow"
            <=> \A i \in Tagged("closeRequested") : log[i][3]

\* two registered windows, one accepts and one vetoes: the reply is cancel
C3_Witness ==
  /\ log # << >> /\ Head(log)[1] = "applicationShouldTerminate:"
  /\ Cardinality(DOMAIN native_window_lookup) >= 2
  /\ \E i \in Tagged("closeRequested") : log[i][3]
  /\ \E i \in Tagged("closeRequested") : ~log[i][3]
  /\ log[Len(log)][1] = "NSTerminateCancel"

\* C4: when the only open standalone window is closed while the event loop
\* runs, and the close delivers both the will-close notification and the
\* view's detach notification, [NSApp stop:] is sent exactly once.
C4_ExactlyOneStop ==
  (/\ InCloseRequest /\ closing = NoWindow /\ ~crashed
   /\ running_event_loop
   /\ \E i \in Tagged("nativeClose") : log[i][3]
   /\ Tagged("windowWillClose") # {}
   /\ Tagged("viewWillMoveToWindow:nil") # {}
   /\ \A v \in Windows : ~IsShowing(Cur, v))
  => Cardinality(Tagged("stop")) = 1

\* C5a: closeWindow sends a stop iff the process runs its own event loop and
\* no registered window is showing once the closing one is unregistered.
C5_StopIffRunningAndNoneRegisteredOpen ==
  log # << >> =>
    /\ log[Len(log)][1] = "stop" => (running_event_loop /\ ~AnyWindowOpen(Cur))
    /\ log[Len(log)][1] = "release" => ~(running_event_loop /\ ~AnyWindowOpen(Cur))

\* C5b: a process that never called runEventLoop never sends a stop.
C5_NoStopWithoutEventLoop == ~running_event_loop => Tagged("stop") = {}

\* C5: C5a and C5b, and no stop is sent while another window is still
\* showing.
C5_StopOnlyForLastOpenWindow ==
  /\ C5_StopIffRunningAndNoneRegisteredOpen
  /\ C5_NoStopWithoutEventLoop
  /\ (log # << >> /\ log[Len(log)][1] = "stop") =>
       \A v \in Windows : life[v] = "live" => ~IsShowing(Cur, v)

\* C6: a close request on a standalone window's native window (user close or
\* close()) is decided by the window's closeRequested(): the native close
\* proceeds only after it returned true, and after false the window keeps its
\* native handle, stays registered and, if it was on screen, showing.
C6_CloseDecidedByCloseRequested ==
  InCloseRequest =>
    /\ \A i \in Tagged("nativeClose") :
         \E j \in Tagged("closeRequested") :
           j < i /\ log[j][2] = log[i][2] /\ log[j][3]
    /\ \A j \in Tagged("closeRequested") :
         ~log[j][3] =>
           /\ Tagged("nativeClose") = {}
           /\ window_handle[log[j][2]] = "ns"
           /\ FindWindow(native_window_lookup, NativeHandle(log[j][2])) = log[j][2]
           /\ Head(log)[1] = "userClose" => IsShowing(Cur, log[j][2])

\* C7: a will-close notification for a registered standalone window persists
\* the content rectangle, unregisters the window, hides it (order out, notify
\* hide) and releases the native window, in this order; afterwards
\* findWindow(handle) is null and isShowing() is false.
C7_WillCloseTeardownOrder ==
  \A i \in Tagged("windowWillClose") :
    LET w          == log[CHOOSE k \in Tagged("nativeClose") : TRUE][2]
        registered == \A j \in Tagged("removeWindow") : j > i
        tags       == [k \in 1..5 |-> log[i + k][1]]
    IN  IF registered
          THEN /\ Len(log) >= i + 5
               /\ tags = <<"persist", "removeWindow", "orderOut", "notifyHide",
                           "release">>
               /\ FindWindow(native_window_lookup, NativeHandle(w)) = NoWindow
               /\ ~IsShowing(Cur, w)
               /\ window_handle[w] = "null"
               /\ (closing = w /\ Cardinality(Tagged("persist")) = 1) =>
                    last_content_rect[w] = ns_rect[w]
          ELSE Tagged("persist") = {k \in Tagged("persist") : k < i}

\* the will-close teardown of a window that was on screen has just run and
\* kept a content rectangle
C7_Witness ==
  /\ closing # NoWindow /\ "willClose" \notin pending
  /\ Tagged("windowWillClose") # {} /\ Tagged("release") # {}
  /\ \E i \in Tagged("nativeClose") : log[i][3]
  /\ Cardinality(Tagged("persist")) = 1
  /\ last_content_rect[closing] # ZeroRect
  /\ last_content_rect[closing] = ns_rect[closing]

\* C8: once the destructor has nulled the view's back-reference, no step,
\* neither a re-dispatched tick nor a redraw of the layer, invokes the draw
\* callback of the window.
C8_NoDrawAfterDestroy ==
  [][\A w \in Windows :
       life[w] = "destroyed" =>
         /\ ~visage_window[w]
         /\ draw_calls'[w] = draw_calls[w]]_vars

\* a redraw reached the view of a destroyed window and skipped the callback
C8_Witness ==
  \E w \in Windows : life[w] = "destroyed" /\ draw_count[w] > draw_calls[w]

\* C9: a step of the timing thread only appends one block to the main queue;
\* the counters, the layer's mark, the window objects and the registry change
\* only in steps of the UI thread.
C9_TickOnlyEnqueues ==
  [][/\ last_thread' = "timing" =>
          /\ \E w \in Windows : main_queue' = Append(main_queue, w)
          /\ UNCHANGED <<winVars, surfVars, mouseVars, needs_display, display_count,
                         draw_count, link_running, draw_calls>>
     /\ <<needs_display, display_count, draw_count, draw_calls>>'
          # <<needs_display, display_count, draw_count, draw_calls>>
          => last_thread' = "ui"]_vars

\* two ticks are waiting on the main queue, a third one was counted on the UI
\* thread
C9_Witness ==
  /\ last_thread = "timing"
  /\ Len(main_queue) = 2
  /\ \E w \in Windows : display_count[w] = 1 /\ needs_display[w]

\* C10: each of view creation, setFrameSize: and
\* viewDidChangeBackingProperties leaves the drawable at bounds times the
\* contents scale, the contents scale being the window's backing scale when
\* the view is in a window and the scale held before otherwise.
C10_DrawableIsBoundsTimesScale ==
  [][surf_pc' \in {"created", "resized", "rescaled"} =>
       /\ drawable_size' = <<bounds_size'[1] * contents_scale',
                             bounds_size'[2] * contents_scale'>>
       /\ contents_scale' = IF surf_in_window' THEN backing_scale'
                            ELSE contents_scale]_vars

\* a 100x50 view out of its window was resized and kept the scale 2
C10_Witness ==
  /\ surf_pc = "resized" /\ ~surf_in_window
  /\ bounds_size = <<100, 50>> /\ contents_scale = 2
  /\ drawable_size = <<200, 100>>

\* the window object constructed last, and whether its constructor has just run
LastConstructed == CHOOSE w \in Windows :
                     life[w] # "none" /\ \A v \in Windows : life[v] # "none" => v <= w
InConstructor == log # << >> /\ Head(log)[1] = "WindowMac"

\* C11: an embedded window never owns a native top-level window, whatever
\* show(), showMaximized(), hide(), close() and attach/detach do, and it is
\* registered by its constructor.
C11_EmbeddedOwnsNoWindow ==
  /\ \A w \in Windows :
       (life[w] = "live" /\ IsEmbedded(Cur, w)) => window_handle[w] # "ns"
  /\ InConstructor =>
       (IsEmbedded(Cur, LastConstructed) =>
          FindWindow(native_window_lookup, NativeHandle(LastConstructed))
            = LastConstructed)

\* C11a: the constructor of an embedded window registers it
C11_EmbeddedRegisteredAtConstruction ==
  InConstructor =>
    (IsEmbedded(Cur, LastConstructed) =>
       /\ FindWindow(native_window_lookup, NativeHandle(LastConstructed))
            = LastConstructed
       /\ window_handle[LastConstructed] # "ns")

\* C12: the view of an embedded window never observes the occlusion of a
\* window; attaching it to the host's window sets its visibility to true, and
\* no occlusion change sets it to false.
C12_EmbeddedIgnoresOcclusion ==
  \A w \in Windows :
    (life[w] = "live" /\ IsEmbedded(Cur, w)) =>
      /\ observing[w] = {}
      /\ visible[w] # "false"
      /\ view_in_window[w] => visible[w] = "true"
      /\ \A i \in Tagged("setVisible") : log[i][2] = w => log[i][3]

\* the host's window became occluded while an embedded view is attached to it
C12_Witness ==
  /\ log # << >> /\ Head(log)[1] = "occlusion"
  /\ \E i \in Tagged("occluded") : log[i][2] = "host" /\ ~log[i][3]
  /\ \E w \in Windows :
       /\ life[w] = "live" /\ IsEmbedded(Cur, w)
       /\ view_in_window[w] /\ window_handle[w] = "host"
       /\ visible[w] = "true"

\* C13: when the constructor of a standalone window returns, the window owns
\* no native window (window_handle_ is null) while its view exists and it is
\* registered.
C13_NativeWindowCreatedLazily ==
  InConstructor =>
    (~IsEmbedded(Cur, LastConstructed) =>
       /\ window_handle[LastConstructed] = "null"
       /\ visage_window[LastConstructed]
       /\ FindWindow(native_window_lookup, NativeHandle(LastConstructed))
            = LastConstructed)

\* C13a: the constructor of a standalone window leaves the view in place and
\* the window registered
C13_RegisteredAtConstruction ==
  InConstructor =>
    (~IsEmbedded(Cur, LastConstructed) =>
       /\ visage_window[LastConstructed]
       /\ FindWindow(native_window_lookup, NativeHandle(LastConstructed))
            = LastConstructed)

\* the copy closeAll() took, and the windows it has called close() on so far
CloseAllSnapshot == log[CHOOSE i \in Tagged("closeAll") : TRUE][2]
CloseAllVisited ==
  LET RECURSIVE From(_)
      From(i) == IF i > Len(log) THEN << >>
                 ELSE IF log[i][1] = "close" /\ Len(log[i]) = 3
                   THEN <<log[i][2]>> \o From(i + 1)
                 ELSE From(i + 1)
  IN  From(2)
CloseAllDone ==
  /\ Tagged("closeAll") # {} /\ close_all = << >>
  /\ closing = NoWindow /\ ~crashed

\* C14a: closeAll() calls close() once on every window of the copy it took of
\* the registry, in order, none skipped and none visited twice, whatever the
\* closes unregister meanwhile.
C14_CloseAllVisitsSnapshot ==
  Tagged("closeAll") # {} =>
    /\ CloseAllVisited \o close_all = CloseAllSnapshot
    /\ \A i, j \in 1..Len(CloseAllSnapshot) :
         CloseAllSnapshot[i] = CloseAllSnapshot[j] => i = j
    /\ CloseAllVisited = << >> =>
         {CloseAllSnapshot[i] : i \in 1..Len(CloseAllSnapshot)}
           = {native_window_lookup[h] : h \in DOMAIN native_window_lookup}

\* C14: C14a, and a window whose closeRequested() is false is still
\* registered when closeAll() has returned.
C14_CloseAllOnceAndVetoKept ==
  /\ C14_CloseAllVisitsSnapshot
  /\ CloseAllDone =>
       \A i \in Tagged("close") :
         (Len(log[i]) = 3 /\ ~log[i][3]) =>
           FindWindow(native_window_lookup, NativeHandle(log[i][2])) = log[i][2]

\* the key event being handled, if the current event is a key-down
KeyDownIsQuit ==
  /\ allow_quit[Head(log)[2]] /\ Head(log)[3] /\ Head(log)[4] \in {"q", "w"}

\* C17: the view of a standalone window has allow_quit, that of an embedded
\* one has not; a key-down with Command and q or w in a view with allow_quit
\* calls closeAll(), which requests close on every registered window, and
\* reaches neither interpretKeyEvents:, handleKeyDown nor super; any other
\* key-down goes through the normal dispatch and does not call closeAll().
C17_QuitShortcutOnlyWhenAllowed ==
  /\ \A w \in Windows : life[w] = "live" => (allow_quit[w] <=> ~IsEmbedded(Cur, w))
  /\ (log # << >> /\ Head(log)[1] = "keyDown") =>
       IF KeyDownIsQuit
         THEN /\ Tagged("closeAll") = {2}
              /\ Tagged("interpretKeyEvents") = {}
              /\ Tagged("handleKeyDown") = {}
              /\ Tagged("super keyDown") = {}
              /\ C14_CloseAllVisitsSnapshot
         ELSE /\ Tagged("closeAll") = {}
              /\ close_all = << >>
              /\ Tagged("interpretKeyEvents") # {} <=> ~Head(log)[3]
              /\ Tagged("handleKeyDown") # {}

\* Command-q in the view of a standalone window asked two registered windows
\* to close
C17_Witness ==
  /\ log # << >> /\ Head(log)[1] = "keyDown" /\ KeyDownIsQuit
  /\ CloseAllDone
  /\ Len(CloseAllVisited) >= 2

\* C18: a key-down that is not the quit shortcut, and every key-up, is passed
\* to super exactly when the handler of the window returned false.
C18_PassedOnIffNotHandled ==
  /\ (log # << >> /\ Head(log)[1] = "keyDown" /\ ~KeyDownIsQuit) =>
       /\ Cardinality(Tagged("handleKeyDown")) = 1
       /\ \A i \in Tagged("handleKeyDown") :
            /\ log[i][2] = Head(log)[2]
            /\ Tagged("super keyDown") # {} <=> ~log[i][3]
  /\ (log # << >> /\ Head(log)[1] = "keyUp") =>
       /\ Cardinality(Tagged("handleKeyUp")) = 1
       /\ \A i \in Tagged("handleKeyUp") :
            /\ log[i][2] = Head(log)[2]
            /\ Tagged("super keyUp") # {} <=> ~log[i][3]

\* a key-up the window consumed went no further
C18_Witness ==
  /\ log # << >> /\ Head(log)[1] = "keyUp"
  /\ \E i \in Tagged("handleKeyUp") : log[i][3]
  /\ Tagged("super keyUp") = {}

\* the registry before the addWindow/removeWindow that has just run
LookupBefore == Head(log)[3]

C16_RemoveWindowOnlyOwnEntry ==
  (log # << >> /\ Head(log)[1] = "removeWindow" /\ Len(Head(log)) = 3) =>
    LET w == Head(log)[2]
    IN  /\ DOMAIN native_window_lookup = DOMAIN LookupBefore \ {NativeHandle(w)}
        /\ \A h \in DOMAIN native_window_lookup :
             native_window_lookup[h] = LookupBefore[h]
        /\ NativeHandle(w) \notin DOMAIN LookupBefore =>
             native_window_lookup = LookupBefore
        /\ RemoveWindow(native_window_lookup, w) = native_window_lookup

\* removeWindow erased one entry of two
C16_Witness ==
  /\ log # << >> /\ Head(log)[1] = "removeWindow" /\ Len(Head(log)) = 3
  /\ NativeHandle(Head(log)[2]) \in DOMAIN LookupBefore
  /\ Cardinality(DOMAIN LookupBefore) = 2
  /\ Cardinality(DOMAIN native_window_lookup) = 1

\* C19a: a mouse-down or show() never asks a popup to become key, and every
\* handled mouse-down on another window does.
C19_PopupNotKeyOnClickOrShow ==
  \A w \in Windows :
    /\ (life[w] = "live" /\ IsPopup(Cur, w) /\ log # << >>
        /\ Head(log)[1] \in {"mouseDown", "show"}) =>
         /\ Tagged("makeKeyWindow") = {}
         /\ Tagged("makeKeyAndOrderFront") = {}
    /\ (life[w] = "live" /\ ~IsPopup(Cur, w) /\ log # << >>
        /\ Head(log)[1] = "mouseDown" /\ Head(log)[2] = w) =>
         (Tagged("handleMouseDown") # {} => Tagged("makeKeyWindow") # {})

\* C19: C19a, and showMaximized() never asks a popup to become key either.
C19_PopupNeverKey ==
  /\ C19_PopupNotKeyOnClickOrShow
  /\ \A w \in Windows :
       (life[w] = "live" /\ IsPopup(Cur, w) /\ log # << >>
        /\ Head(log)[1] = "showMaximized") =>
         /\ Tagged("makeKeyWindow") = {}
         /\ Tagged("makeKeyAndOrderFront") = {}

\* C20a: after a drag with the left, right or middle button in relative mode
\* the cursor is where it was at the last mouse-down; without relative mode
\* the drag does not warp it.
C20_DragRecentersForThreeButtons ==
  (log # << >> /\ Head(log)[1] = "mouseDragged") =>
    LET w == Head(log)[2]
    IN  /\ (Head(log)[4] /\ Head(log)[3] # "other") => cursor = last_down[w]
        /\ ~Head(log)[4] => (Tagged("warp") = {} /\ cursor = Head(log)[5])

\* C20: after every drag in relative mode, whatever the button, the cursor is
\* where it was at the most recent mouse-down; without relative mode the drag
\* does not warp it.
C20_DragRecentersToLastMouseDown ==
  (log # << >> /\ Head(log)[1] = "mouseDragged") =>
    LET w == Head(log)[2]
    IN  /\ Head(log)[4] => cursor = last_down[w]
        /\ ~Head(log)[4] => (Tagged("warp") = {} /\ cursor = Head(log)[5])

\* the input event being handled reached a view whose back-reference was null
InputToTornDownView ==
  /\ log # << >> /\ Head(log)[1] = "input" /\ ~Head(log)[4]

\* C21: an input event delivered to a view whose back-reference has been
\* nulled by teardown does nothing: no window handler is called, the null
\* back-reference is not dereferenced, no window is asked to close.
C21_TornDownViewIgnoresInput ==
  InputToTornDownView =>
    /\ Len(log) = 1
    /\ ~crashed
    /\ close_all = << >>

\* C21a: an input event delivered to a view with its back-reference calls the
\* handler of the owning window, unless it is the quit shortcut
C21_LiveViewForwardsInput ==
  (log # << >> /\ Head(log)[1] = "input" /\ Head(log)[4]) =>
    /\ ~crashed /\ Tagged("nullDeref") = {}
    /\ \/ Tagged("closeAll") = {2} /\ Head(log)[3] = "keyDown"
       \/ Len(log) = 2 /\ log[2] = <<WindowHandler(Head(log)[3]), Head(log)[2]>>

\* the registry misses the content view of the closing window
LookupMiss(w) ==
  FindWindow(native_window_lookup,
             IF view_in_window[w] THEN NativeHandle(w) ELSE NoWindow) = NoWindow

\* C22: windowShouldClose: and windowWillClose: of a window whose content
\* view the registry does not hold complete without dereferencing the null
\* result of findWindow and leave the registry and the windows as they are.
C22_DelegatesHandleLookupMiss ==
  Tagged("nullDeref") = {} /\ ~crashed

\* C22a: windowWillClose: tests the result of findWindow: on a miss it calls
\* nothing and changes neither the registry nor a window
C22_WillCloseHandlesLookupMiss ==
  [][\A w \in Windows :
       (closing = w /\ "willClose" \in pending /\ "willClose" \notin pending'
          /\ LookupMiss(w)) =>
         /\ log' = Append(log, <<"windowWillClose">>)
         /\ UNCHANGED <<native_window_lookup, window_handle, last_content_rect,
                        ns_visible, visage_window, life>>]_vars

\* C23: a pointer or drag position (x, y) of a view of height H whose window
\* has DPI scale s is converted to (x * s, (H - y) * s): the bottom of the
\* view (y = 0) to H * s, the top (y = H) to 0.
C23_PointFlippedAndScaled ==
  (log # << >> /\ Head(log)[1] \in {"eventPosition", "dragPosition"}) =>
    LET x == Head(log)[2][1]
        y == Head(log)[2][2]
        H == Head(log)[3]
        s == Head(log)[4]
        result == Head(log)[5]
    IN  /\ result = <<x * s, (H - y) * s>>
        /\ y = 0 => result[2] = H * s
        /\ y = H => result[2] = 0

\* a pointer event at the bottom of a view at scale 2
C23_Witness ==
  /\ log # << >> /\ Head(log)[1] = "eventPosition"
  /\ Head(log)[2][2] = 0 /\ Head(log)[2][1] > 0 /\ Head(log)[4] = 2
  /\ Head(log)[5] = <<Head(log)[2][1] * 2, Head(log)[3] * 2>>

\* the values of the KeyCode enumeration that translateKeyCode returns
KeyCodeValues == {KeyCases[i][2] : i \in 1..Len(KeyCases)} \cup {"Unknown"}

\* C24: translateKeyCode maps every native key code to a value of KeyCode,
\* a code of the table to the value the table gives it and every other code
\* to Unknown.
C24_TranslateKeyCodeTotal ==
  (log # << >> /\ Head(log)[1] = "translateKeyCode") =>
    LET code   == Head(log)[2]
        result == Head(log)[3]
    IN  /\ result \in KeyCodeValues
        /\ \A i \in 1..Len(KeyCases) : KeyCases[i][1] = code => result = KeyCases[i][2]
        /\ (\A i \in 1..Len(KeyCases) : KeyCases[i][1] # code) => result = "Unknown"

\* a key code absent from the table (10, between two of its codes, or
\* MaxKeyCode, above all of them) was translated to Unknown
C24_Witness ==
  /\ log # << >> /\ Head(log)[1] = "translateKeyCode"
  /\ Head(log)[2] \in {10, MaxKeyCode} /\ Head(log)[3] = "Unknown"

\* C25: a window requested with default x and y and a width and height of w
\* and h logical pixels gets bounds of w * scale by h * scale physical pixels,
\* centred on the screen: x = (screen_width_px - width) / 2 with
\* screen_width_px = screen width * scale (the screen that holds the origin),
\* and the margins left and right, above and below differ by at most a pixel.
C25_DefaultPlacementCentred ==
  (log # << >> /\ Head(log)[1] = "computeWindowBounds"
     /\ Head(log)[2][1] = DefaultDimension /\ Head(log)[2][2] = DefaultDimension) =>
    LET w      == Head(log)[2][3].amount
        h      == Head(log)[2][4].amount
        screen == Head(log)[3][1]
        b      == Head(log)[5]
        sw     == screen.width * screen.scale
        sh     == screen.height * screen.scale
    IN  /\ b.width = w * screen.scale /\ b.height = h * screen.scale
        /\ b.x = CDiv(sw - b.width, 2)
        /\ (sw - b.width - b.x) - b.x \in {0 - 1, 0, 1}
        /\ (sh - b.height - b.y) - b.y \in {0 - 1, 0, 1}

\* 800 by 600 at the default place on one 1920 by 1080 screen of scale 2:
\* 1600 by 1200 at x = 1120
C25_Witness ==
  /\ log # << >> /\ Head(log)[1] = "computeWindowBounds"
  /\ Head(log)[2] = <<DefaultDimension, DefaultDimension,
                      LogicalPixels(800), LogicalPixels(600)>>
  /\ Head(log)[3] = <<ScreenAt(0, <<1920, 1080>>, 2)>>
  /\ Head(log)[5].width = 1600 /\ Head(log)[5].height = 1200
  /\ Head(log)[5].x = 1120

C27_DestructorOrder ==
  (log # << >> /\ Head(log) = <<"~WindowMac">>) =>
    /\ Tagged("removeWindow") = {2}
    /\ Cardinality(Tagged("nullBackRef")) = 1
    /\ \A n \in Tagged("nullBackRef") :
         /\ \A i \in Tagged("orderOut") \cup Tagged("notifyHide") : 2 < i /\ i < n
         /\ \A i \in Tagged("removeFromSuperview") : i = n + 1 /\ i = Len(log)
         /\ Tagged("removeFromSuperview") = {} => n = Len(log)
    /\ Tagged("persist") = {} /\ Tagged("release") = {} /\ Tagged("stop") = {}

\* the destructor of an embedded window took its view out of the host's
\* window, which raised viewWillMoveToWindow:nil
C27_Witness ==
  /\ log # << >> /\ Head(log) = <<"~WindowMac">>
  /\ Tagged("removeFromSuperview") # {}
  /\ \E w \in Windows : life[w] = "destroyed" /\ ~visage_window[w]

\* C28: once dealloc of a view has begun no tick is dispatched for it and no
\* block runs markNeedsDisplayFromDisplayLink on it after it was freed: the
\* main queue never holds a block whose view is not kept alive.
C28_NoTickForDeallocatedView ==
  /\ \A i \in 1..Len(main_queue) : main_queue[i] \in Windows
  /\ Tagged("useAfterFree") = {}

\* C28a: a block dispatched before dealloc began keeps its view alive and
\* its display link running until it has run
C28_DispatchedBlockRetainsView ==
  \A w \in Windows : w \in Range(main_queue) => link_running[w]

C30_RepeatedCloseKeepsGeometry ==
  \A w \in Windows :
    (closing = w /\ Cardinality(Tagged("persist")) >= 2) =>
      last_content_rect[w] = ns_rect[w]

\* C30a: the NSWindow that show() creates for a standalone window after a
\* close has the rectangle of the closed one, which is never the zero
\* rectangle
C30_ShowRecreatesWithGeometry ==
  \A w \in Windows :
    (window_handle[w] = "ns" /\ ~parent_view[w]) => ns_rect[w] # ZeroRect

\* C31: hide(), show(), close() and showMaximized() of an embedded window
\* never act on the host's window: no step of one of these calls changes the
\* visibility of the host's window or sends it performClose:.
C31_EmbeddedLeavesHostWindow ==
  [][(log' # log /\ Head(log')[1] \in {"hide", "show", "close", "showMaximized"}) =>
       /\ host_visible' = host_visible
       /\ \A i \in 1..Len(log') : log'[i][1] # "hostPerformClose"]_vars

\* C31a: hide() and show() of an embedded window leave the host's window as
\* it is: they neither order it out nor in
C31_HideShowLeaveHostWindow ==
  [][(log' # log /\ Head(log')[1] \in {"hide", "show"}) =>
       /\ host_visible' = host_visible
       /\ \A w \in Windows :
            (parent_view[w] /\ \A v \in Windows \ {w} : life[v] # "live") =>
              \A i \in 1..Len(log') :
                log'[i][1] \notin {"orderOut", "orderFront", "makeKeyAndOrderFront"}]_vars

\* C32: within one live-resize gesture the horizontal (vertical) flag is
\* false at the start, and after each proposed frame size it is true exactly
\* if some proposal of the gesture so far differed in width (height) from the
\* frame of the window at that time; the adjustment is made with these flags.
C32_FlagsAccumulateOverGesture ==
  (log # << >> /\ Head(log)[1] = "windowWillStartLiveResize") =>
    /\ Head(log)[3] = <<FALSE, FALSE>>
    /\ \A k \in 2..Len(log) :
         LET differed(axis) == \E j \in 2..k : log[j][2][axis] # log[j][3][axis]
             r == log[k][4]
         IN  /\ r.resizing_horizontal = differed(1)
             /\ r.resizing_vertical = differed(2)
             /\ r.adjusted = AdjustWindowDimensions(r.proposed, differed(1),
                                                    differed(2), <<0, 1>>, <<0, 0>>)

\* C32 witness: a gesture whose first proposal changed the width only and
\* whose later proposal kept the width: the horizontal flag is still set
C32_Witness ==
  /\ Len(log) >= 3 /\ Head(log)[1] = "windowWillStartLiveResize"
  /\ log[2][2][1] # log[2][3][1] /\ log[2][2][2] = log[2][3][2]
  /\ log[3][2] = log[3][3]
  /\ log[3][4].resizing_horizontal /\ ~log[3][4].resizing_vertical

\* C33: when handleAdjustResize leaves width and height as they are,
\* windowWillResize:toSize: answers with the proposed frame size: for whole
\* sizes and borders at scale 1 and 2, taking off the border, scaling to
\* pixels and converting back loses nothing (the size is held in pixels, so
\* it is the proposed size times the scale).
C33_UnadjustedResizeReturnsProposal ==
  (log # << >> /\ Head(log)[1] = "windowWillResize") =>
    LET frame_size == Head(log)[2]
        scale      == Head(log)[3]
        r          == Head(log)[5]
    IN  r.adjusted = r.proposed =>
          r.size = <<scale * frame_size[1], scale * frame_size[2]>>

\* C33 witness: a proposal on both axes at scale 2 that the callback left as
\* it was
C33_Witness ==
  /\ log # << >> /\ Head(log)[1] = "windowWillResize"
  /\ Head(log)[2] = <<301, 278>> /\ Head(log)[3] = 2
  /\ Head(log)[5].adjusted = Head(log)[5].proposed
  /\ Head(log)[5].proposed = <<602, 500>>

\* C34: a key-down without Command runs interpretKeyEvents: exactly once,
\* before handleKeyDown and whatever handleKeyDown returns; a key-down with
\* Command runs no interpretKeyEvents:.
C34_TextInterpretedOnceBeforeKeyDown ==
  (log # << >> /\ Head(log)[1] = "keyDown") =>
    IF Head(log)[3]
      THEN Tagged("interpretKeyEvents") = {}
      ELSE /\ Cardinality(Tagged("interpretKeyEvents")) = 1
           /\ Cardinality(Tagged("handleKeyDown")) = 1
           /\ \A i \in Tagged("interpretKeyEvents"), j \in Tagged("handleKeyDown") :
                i < j /\ log[j][2] = Head(log)[2]

\* C34 witness: a key-down without Command that handleKeyDown took
C34_Witness ==
  /\ log # << >> /\ Head(log)[1] = "keyDown" /\ ~Head(log)[3]
  /\ \E j \in Tagged("handleKeyDown") : log[j][3]
  /\ Tagged("interpretKeyEvents") # {} /\ Tagged("super keyDown") = {}

\* C35: after viewDidChangeBackingProperties the DPI scale of the owning
\* window equals the backingScaleFactor of the window that holds the view and
\* equals the contentsScale of the layer, for standalone, embedded and
\* closed windows alike.
C35_ScalesAgreeAfterBackingChange ==
  (log # << >> /\ Head(log)[1] = "viewDidChangeBackingProperties") =>
    /\ Head(log)[5].contents_scale = Head(log)[4]
    /\ visage_window[Head(log)[2]] => Head(log)[5].dpi_scale = Head(log)[4]

\* C35a: the scales agree after viewDidChangeBackingProperties whenever the
\* owning window holds a native window, its own or the host's
C35_ScalesAgreeWithWindowHandle ==
  (log # << >> /\ Head(log)[1] = "viewDidChangeBackingProperties"
     /\ window_handle[Head(log)[2]] # "null") =>
    /\ Head(log)[5].contents_scale = Head(log)[4]
    /\ Head(log)[5].dpi_scale = Head(log)[4]
    /\ Head(log)[5].drawable = <<100 * Head(log)[4], 50 * Head(log)[4]>>

\* the screen of `screens` whose frame, in points, holds the point <<px, py>>,
\* the main screen if none does
ScreenUnder(screens, main, px, py) ==
  LET under == {i \in 1..Len(screens) :
                  /\ screens[i].x <= px /\ px < screens[i].x + screens[i].width
                  /\ screens[i].y <= py /\ py < screens[i].y + screens[i].height}
  IN  IF under = {} THEN screens[main]
      ELSE screens[CHOOSE i \in under : \A j \in under : i <= j]

\* the bounds of the event were resolved with the scale and size of `screen`
ResolvedAgainst(screen) ==
  LET b == Head(log)[5]
  IN  /\ b.scale = screen.scale
      /\ b.screen_width = screen.width * screen.scale
      /\ b.screen_height = screen.height * screen.scale
      /\ b.width = Head(log)[2][3].amount * screen.scale
      /\ b.height = Head(log)[2][4].amount * screen.scale

\* C36: the bounds of a window are resolved against the screen whose frame
\* holds the requested origin (x and y in logical pixels, that is in points;
\* a default coordinate counts as 0), against the main screen if no frame
\* holds it, with that screen's own scale and size.
C36_PlacementOnScreenUnderOrigin ==
  (log # << >> /\ Head(log)[1] = "computeWindowBounds") =>
    ResolvedAgainst(ScreenUnder(Head(log)[3], Head(log)[4],
                                Head(log)[2][1].amount, Head(log)[2][2].amount))

\* C36a: with a main screen of scale 1, where pixels are points, the bounds
\* are resolved against the screen under the requested origin, also when it
\* is not the main screen and has another scale
C36_PlacementWithUnscaledMain ==
  (log # << >> /\ Head(log)[1] = "computeWindowBounds"
     /\ Head(log)[3][Head(log)[4]].scale = 1) =>
    ResolvedAgainst(ScreenUnder(Head(log)[3], Head(log)[4],
                                Head(log)[2][1].amount, Head(log)[2][2].amount))

\* C37: no redraw request is lost: a drawing frame for which request_redraw
\* was called, also from inside a draw of drawStaleChildren, and that has not
\* been drawn since nor left the hierarchy, is in stale_children_, so the
\* next drawWindow of the visible window draws it.
C37_NoRedrawRequestLost ==
  (log # << >> /\ ~crashed /\ Editor.intact) =>
    \A frame \in Editor.owed : \E i \in 1..Len(Editor.stale) : Editor.stale[i] = frame

\* C37a: a redraw requested outside drawStaleChildren is never lost
C37_RequestOutsideDrawKept ==
  (log # << >> /\ Head(log)[1] = "request_redraw") =>
    \E i \in 1..Len(Editor.stale) : Editor.stale[i] = Head(log)[3]

\* C38: stale_children_ never holds the same frame twice, whatever
\* request_redraw, remove_from_hierarchy and drawStaleChildren did, redraw
\* requests of frames that are being drawn included.
C38_StaleChildrenDistinct ==
  ~crashed =>
    \A i \in 1..Len(Editor.stale), j \in 1..Len(Editor.stale) :
      Editor.stale[i] = Editor.stale[j] => i = j

\* C38a: stale_children_ holds no frame twice as long as no push_back has
\* moved the vector under the iterator of the second loop
C38_StaleChildrenDistinctWhileIntact ==
  Editor.intact =>
    \A i \in 1..Len(Editor.stale), j \in 1..Len(Editor.stale) :
      Editor.stale[i] = Editor.stale[j] => i = j

\* C39: drawWindow does nothing when the window of the editor is not visible
\* or the editor has no width or height: no init, no drawToRegion, no submit,
\* and stale_children_ and the rest of the editor stay as they are.
C39_DrawWindowSkipsHiddenOrEmpty ==
  [][(log' # << >> /\ Head(log')[1] = "drawWindow"
        /\ (~Editor.visible \/ Editor.zero)) =>
       /\ Len(log') = 1
       /\ Head(log')[2] = Editor]_vars

\* C39 witness: a drawWindow of a hidden window has left two stale frames
\* and the editor uninitialised
C39_Witness ==
  /\ log # << >> /\ Head(log)[1] = "drawWindow" /\ Len(log) = 1
  /\ ~Editor.visible /\ ~Editor.initialized /\ Len(Editor.stale) = 2

====
